---- MODULE Spec2Model ----
(***************************************************************************)
(* Session recorder of NabiaTech/cx: lib/codex-tee.py ("tee") and          *)
(* lib/codex-tee-v2.py ("tee_v2").  One recorder process wraps the codex   *)
(* child in a pty, relays bytes in both directions and appends a raw       *)
(* transcript, a hash-chained JSONL transcript and a metadata file.        *)
(*                                                                         *)
(* The recorder is a sequential program; pc is its position.  A step of    *)
(* the model is one statement group of main, so that a signal (whose       *)
(* handler raises SystemExit) can be delivered between any two of them.    *)
(* The environment (child, descriptors, file system) answers every system  *)
(* call with one of the outcomes that call can have.                       *)
(*                                                                         *)
(* SpecWinch is tee_v2 on a terminal whose window is resized.              *)
(*                                                                         *)
(* The other programs of lib/ have their own variables and specifications: *)
(* the converters of the generic, tail and Loki shippers (SpecConvert),    *)
(* the polling loop of codex-tail-shipper.py with its persisted offsets,   *)
(* following a file that grows by whole lines (SpecTail) or one that is    *)
(* written in pieces and truncated (SpecFollow), codex-log-cleanup.py      *)
(* (SpecCleanup), main of codex-generic-shipper.py (SpecGeneric), the      *)
(* request handler of codex-gateway.py (SpecGateway) and load_config of    *)
(* cx_config.py (SpecConfig).  In each specification the variables of the  *)
(* other programs keep their initial values.                               *)
(***************************************************************************)
EXTENDS Integers, Sequences, FiniteSets, Bags, TLC

VARIABLES
    variant,           \* which recorder runs: "tee" or "tee_v2"
    codex_on_path,     \* environment: shutil.which("codex") finds the program
    stdin_isatty,      \* environment: os.isatty(stdin_fd)
    args,              \* environment: sys.argv[1:]
    term_size,         \* environment: window size of the user's terminal
    pc,                \* position of main
    pending,           \* exception travelling through the finally block
    exit_status,       \* exit status of the recorder process (read when pc = "done")
    found,             \* result of the PATH check: "unknown", "yes", "no"
    child,             \* "none", "running", "exited" (zombie), "reaped"
    wstatus,           \* wait status of the child once it has exited
    pid_bound,         \* the local pid is assigned (pty.fork returned)
    master,            \* pty master descriptor: "none", "open", "closed"
    tty,               \* mode of the user's terminal: "cooked" or "raw"
    old_tty_settings,  \* captured attributes: "none" or a mode
    stdin_nonblock,    \* O_NONBLOCK on the user's stdin descriptor
    pty_size,          \* window size of the pty the child runs on
    rlist,             \* descriptors select returned for this iteration
    data,              \* chunk in flight
    chunks,            \* chunks read so far
    reads,             \* the chunks os.read returned, in order, with their descriptor
    stdin_eof,         \* a read on stdin returned b""
    master_eio,        \* a read on the pty master failed with EIO
    bytes_in,
    bytes_out,
    counters_bound,    \* the locals bytes_in / bytes_out are assigned
    prev_hash,         \* local prev_hash of main
    line_hash,         \* value append_jsonl is returning, not yet assigned
    exit_code,         \* local exit_code of the finally block
    raw,               \* content of session-<id>.raw.txt
    jsonl,             \* lines of session-<id>.jsonl
    meta,              \* content of session-<id>.meta.json
    files,             \* which of the three session files exist
    pty_in,            \* bytes the recorder wrote to the pty master
    stdout,            \* bytes the recorder wrote to its stdout
    signals,           \* SIGINT / SIGTERM deliveries so far
    \* codex-tail-shipper.py
    sh_pc,             \* position of the tail shipper's main, or "stopped"
    from_beginning,    \* option --from-beginning
    include_text,      \* option --include-text of the shippers
    log_exists,        \* the followed JSONL file exists
    log,               \* records of the followed JSONL file, one per complete line
    partial,           \* bytes of an unfinished line at the end of the file
    written,           \* lines appended to the file so far
    state,             \* files_state entry of the followed file, in memory
    state_file,        \* the entry as STATE_FILE holds it
    seen_size,         \* st.st_size of the followed file at the last rescan
    batch,             \* events of the current poll
    sent,              \* events of batch already handed to post_json
    posted,            \* events of the POSTs that succeeded
    payloads,          \* bag of the ts of the events of every POST payload
    tail_read,         \* ts of the records tail_file has returned so far
    fresh,             \* tail_file has not been called since the process started
    runs,              \* times the tail shipper has been started
    \* to_generic_event / convert_to_loki_entry applied to one record
    cv_record,         \* the record handed to a converter
    cv_by,             \* which converter was applied, "none" before
    cv_out,            \* what it returned
    \* codex-log-cleanup.py
    cl_pc,             \* position of the cleanup's main
    days_arg,          \* option --days as given
    dry_run,           \* option --dry-run
    tree,              \* files that exist under the base directory
    dirs,              \* directories that exist under the base directory
    to_delete,         \* files selected for deletion, not yet unlinked
    unlinked,          \* files the cleanup has removed
    removed_dirs,      \* directories the cleanup has removed
    cl_exit,           \* exit status of the cleanup
    \* codex-generic-shipper.py
    gs_pc,             \* position of the generic shipper's main
    gs_exists,         \* the JSONL file given exists
    gs_records,        \* number of records parse_jsonl returns
    gs_batch_size,     \* option --batch-size
    gs_dry_run,        \* option --dry-run
    gs_i,              \* loop variable i: events before the current batch
    gs_sent,           \* local sent
    gs_failed,         \* local failed
    gs_posts,          \* the calls of post_json: first and last event, outcome
    gs_exit,           \* exit status of the generic shipper
    \* codex-gateway.py
    gw_request,        \* the last POST request handled
    gw_response,       \* the status it was answered with, "none" for no answer
    gw_file,           \* lines of received-YYYYMMDD.jsonl
    gw_served,         \* requests handled so far
    \* cx_config.py
    cf_env,            \* environment variables
    cf_toml,           \* content of the XDG config.toml, <<>> when there is none
    cf_legacy,         \* "codex" member of ~/.memchain/loki.json, <<>> when there is none
    cf_out             \* what load_config returned, <<>> before the call

v_env     == <<variant, codex_on_path, stdin_isatty, args, term_size>>
v_child   == <<child, wstatus>>
v_tty     == <<tty, old_tty_settings, stdin_nonblock, pty_size>>
v_loc     == <<rlist, data>>
v_io      == <<chunks, reads, stdin_eof, master_eio>>
v_cnt     == <<bytes_in, bytes_out, counters_bound>>
v_hash    == <<prev_hash, line_hash>>
v_files   == <<raw, jsonl, meta, files>>
v_streams == <<pty_in, stdout>>

\* The recorder
v_rec == <<v_env, pc, pending, exit_status, found, v_child, pid_bound, master, v_tty,
           v_loc, v_io, v_cnt, v_hash, exit_code, v_files, v_streams, signals>>

\* The tail shipper, the converters, the cleanup
v_opts    == <<from_beginning, include_text>>
v_log     == <<log_exists, log, partial, written>>
v_posts   == <<posted, payloads>>
v_ship    == <<sh_pc, state, state_file, seen_size, batch, sent, v_posts, tail_read, fresh, runs>>
v_tail    == <<v_log, v_ship>>
v_convert == <<cv_record, cv_by, cv_out>>
v_cleanup == <<cl_pc, days_arg, dry_run, tree, dirs, to_delete, unlinked, removed_dirs,
               cl_exit>>

\* What no step of the recorder touches
v_generic == <<gs_pc, gs_exists, gs_records, gs_batch_size, gs_dry_run, gs_i, gs_sent, gs_failed,
               gs_posts, gs_exit>>
v_gateway == <<gw_request, gw_response, gw_file, gw_served>>
v_config  == <<cf_env, cf_toml, cf_legacy, cf_out>>
v_aux     == <<v_generic, v_gateway, v_config>>

v_tools == <<v_opts, v_tail, v_convert, v_cleanup, v_aux>>

vars == <<v_rec, v_tools>>

----------------------------------------------------------------------------
(* Bounds of the model *)

MaxChunks == 2
MaxSignals == 2

(* Program constants *)

EXIT_NOT_FOUND == 127
ETX == 3
REPLACEMENT_CHAR == 65533

Variants == {"tee", "tee_v2"}

\* Chunks a read on stdin / on the pty master can return (255 is a byte that is
\* never valid UTF-8).
StdinChunks == {<<97, 98>>}
PtyChunks   == {<<104, 255>>}

\* Ways the child can end: exit(0), exit(3), or killed by SIGTERM (15).
ChildExitCodes == {0, 3}
ChildKillSignals == {15}

Descriptors == {"master", "stdin"}

\* Window sizes: what a new pty has, what the user's terminal starts with, and
\* what it is resized between
UNSET_SIZE   == "0x0"
INITIAL_SIZE == "80x24"
WindowSizes  == {INITIAL_SIZE, "132x43"}

\* A session id as ensure_log_paths makes it: strftime("%Y%m%d-%H%M%S"), a dash
\* and eight hexadecimal digits of a uuid4
SESSION_ID == "20240131-235959-0a1b2c3d"
NOW == "ts"
None == <<>>

\* A native session uuid of codex, and the arguments CODEX_UUID_PATTERN matches
CODEX_UUID == "019adb8e-f58d-7c02-ac81-091803b2fe90"
UuidShaped == {CODEX_UUID}

\* Command lines: a plain start, and the resumption of a codex session
PlainArgs == <<>>
ResumeArgs == <<"resume", CODEX_UUID>>

\* extract_codex_uuid: the first argument of uuid shape; "" stands for the None
\* of a string-valued local (both are falsy)
extract_codex_uuid(a) ==
    IF \E i \in 1..Len(a) : a[i] \in UuidShaped
    THEN a[CHOOSE i \in 1..Len(a) : a[i] \in UuidShaped /\ \A j \in 1..(i - 1) : a[j] \notin UuidShaped]
    ELSE ""

\* detect_resume_mode(args)[1]
detect_resume_mode(a) ==
    IF \E i \in 1..Len(a) : a[i] = "resume" THEN extract_codex_uuid(a) ELSE ""

\* The local codex_uuid of main; tee does not look at its arguments
codex_uuid == IF variant = "tee_v2" THEN detect_resume_mode(args) ELSE ""

----------------------------------------------------------------------------
(* Strings, as str and pathlib treat them; positions count from 1 *)

\* s.find(sub) at or after position i; 0 when sub does not occur
RECURSIVE str_find(_, _, _)
str_find(s, sub, i) ==
    IF i + Len(sub) - 1 > Len(s) THEN 0
    ELSE IF SubSeq(s, i, i + Len(sub) - 1) = sub THEN i
    ELSE str_find(s, sub, i + 1)

\* s.rfind(sub) at or before position i; 0 when sub does not occur
RECURSIVE str_rfind(_, _, _)
str_rfind(s, sub, i) ==
    IF i < 1 THEN 0
    ELSE IF i + Len(sub) - 1 <= Len(s) /\ SubSeq(s, i, i + Len(sub) - 1) = sub THEN i
    ELSE str_rfind(s, sub, i - 1)

\* s.split(sep)[-1]
RECURSIVE split_last(_, _)
split_last(s, sep) ==
    LET i == str_find(s, sep, 1)
    IN  IF i = 0 THEN s ELSE split_last(SubSeq(s, i + Len(sep), Len(s)), sep)

\* s.replace(old, "")
RECURSIVE str_remove(_, _)
str_remove(s, old) ==
    LET i == str_find(s, old, 1)
    IN  IF i = 0 THEN s
        ELSE SubSeq(s, 1, i - 1) \o str_remove(SubSeq(s, i + Len(old), Len(s)), old)

\* PurePath.stem of a file name: the name without its last suffix
path_stem(name) ==
    LET i == str_rfind(name, ".", Len(name))
    IN  IF 1 < i /\ i < Len(name) THEN SubSeq(name, 1, i - 1) ELSE name

\* ensure_log_paths: the names of the three session files
Suffixes == [raw |-> ".raw.txt", jsonl |-> ".jsonl", meta |-> ".meta.json"]
ensure_log_paths(sid) == [k \in DOMAIN Suffixes |-> "session-" \o sid \o Suffixes[k]]

----------------------------------------------------------------------------
(* Wait statuses, as the kernel encodes them and os.W* decode them *)

ExitedWith(code) == code * 256
KilledBy(sig) == sig
ChildStatuses == {ExitedWith(c) : c \in ChildExitCodes} \cup {KilledBy(s) : s \in ChildKillSignals}

WIFEXITED(status) == status % 128 = 0
WEXITSTATUS(status) == (status \div 256) % 256

\* exit_code as the finally block computes it from a wait status
ExitCodeOf(v, status) ==
    IF v = "tee_v2"
    THEN (IF WIFEXITED(status) THEN WEXITSTATUS(status) ELSE -1)
    ELSE WEXITSTATUS(status)

----------------------------------------------------------------------------
(* Transcript records.  A JSON object is a list of present keys, in         *)
(* insertion order (the order json.dumps writes), and one typed slot per    *)
(* key of the schema; the slot of an absent key holds the slot's default.   *)
(* json.dumps is injective on these objects, so the serialized line is the  *)
(* object itself.                                                           *)

EmptyObj ==
    [keys |-> <<>>, ts |-> "", session_id |-> "", event |-> "", cmd |-> <<>>, cwd |-> "",
     codex_session_uuid |-> "", is_resume |-> FALSE,
     direction |-> "", bytes |-> 0, text |-> <<>>, total_bytes_in |-> 0,
     total_bytes_out |-> 0, exit_code |-> 0, duration_estimate |-> "",
     error |-> "", error_type |-> "", prev_hash |-> None]

Has(obj, key) == \E i \in 1..Len(obj.keys) : obj.keys[i] = key

\* data.decode(errors="replace")
Decode(bytes) == [i \in 1..Len(bytes) |-> IF bytes[i] < 128 THEN bytes[i] ELSE REPLACEMENT_CHAR]

\* hashlib.sha256(data).hexdigest(): collision-free, so a digest is modelled as
\* the one-element tuple holding the hashed line.
compute_sha256(line_bytes) == <<line_bytes>>

\* if codex_uuid: the record gets codex_session_uuid (and is_resume where the
\* code sets it)
WithUuid(obj, flagged) ==
    IF codex_uuid = "" THEN obj
    ELSE [obj EXCEPT !.keys = @ \o (IF flagged THEN <<"codex_session_uuid", "is_resume">>
                                               ELSE <<"codex_session_uuid">>),
                     !.codex_session_uuid = codex_uuid, !.is_resume = flagged]

SessionStartRecord ==
    WithUuid([EmptyObj EXCEPT !.keys = <<"ts", "session_id", "event", "cmd", "cwd">>,
                              !.ts = NOW, !.session_id = SESSION_ID,
                              !.event = "session_started",
                              !.cmd = <<"codex">> \o args, !.cwd = "cwd"], TRUE)

IoRecord(dir, chunk, total) ==
    [EmptyObj EXCEPT !.keys = <<"ts", "session_id", "direction", "bytes", "text",
                                IF dir = "in" THEN "total_bytes_in" ELSE "total_bytes_out">>,
                     !.ts = NOW, !.session_id = SESSION_ID, !.direction = dir,
                     !.bytes = Len(chunk), !.text = Decode(chunk),
                     !.total_bytes_in = IF dir = "in" THEN total ELSE 0,
                     !.total_bytes_out = IF dir = "out" THEN total ELSE 0]

ErrorRecord ==
    [EmptyObj EXCEPT !.keys = <<"ts", "session_id", "event", "error", "error_type">>,
                     !.ts = NOW, !.session_id = SESSION_ID, !.event = "error",
                     !.error = "err", !.error_type = "OSError"]

SessionEndRecord(code, nin, nout) ==
    WithUuid([EmptyObj EXCEPT !.keys = <<"ts", "session_id", "event", "exit_code",
                                         "total_bytes_in", "total_bytes_out",
                                         "duration_estimate">>,
                              !.ts = NOW, !.session_id = SESSION_ID, !.event = "session_ended",
                              !.exit_code = code, !.total_bytes_in = nin,
                              !.total_bytes_out = nout,
                              !.duration_estimate = "calculated_by_consumer"], FALSE)

\* append_jsonl had it never stored prev_hash in the record
JsonLine_NoPrevHash(obj, ph) == obj

\* The line append_jsonl serializes: json.dumps(obj) after obj["prev_hash"] = prev_hash
\* when prev_hash is truthy.
JsonLine(obj, ph) ==
    IF ph # None
    THEN [obj EXCEPT !.keys = Append(@, "prev_hash"), !.prev_hash = ph]
    ELSE obj

NoMeta ==
    [session_id |-> "", codex_session_uuid |-> "", is_resume |-> FALSE,
     ended |-> FALSE, exit_code |-> 0, total_bytes_in |-> 0,
     total_bytes_out |-> 0, raw_log_size |-> 0, jsonl_log_size |-> 0, final_hash |-> None]

\* The metadata file after open(meta_path, "w") when json.dump then fails: it
\* exists and holds no document
TruncatedMeta == NoMeta

\* session_id had write_meta not removed the ".meta" left by stem
MetaSessionId_KeepSuffix(meta_path) == split_last(path_stem(meta_path), "session-")

\* session_id as write_meta derives it from the name of the metadata file:
\* meta_path.stem.split("session-")[-1].replace(".meta", "")
MetaSessionId(meta_path) == str_remove(split_last(path_stem(meta_path), "session-"), ".meta")

\* The document write_meta writes and returns
write_meta(meta_path) == [NoMeta EXCEPT !.session_id = MetaSessionId(meta_path)]

----------------------------------------------------------------------------
(* Control transfer *)

LoopPcs == {"select", "in_read", "in_write", "in_blocked", "in_count", "in_raw", "in_jw",
            "in_ja", "out_read", "out_write", "out_blocked", "out_count", "out_raw",
            "out_jw", "out_ja"}

\* Positions at which the recorder is suspended inside a write: the call has
\* been entered on a descriptor in blocking mode and the other side is not
\* taking the bytes
BlockedPcs == {"in_blocked", "out_blocked"}
ErrPcs == {"err_write", "err_assign"}
FinPcs == {"fin_restore", "fin_close", "fin_wait", "fin_write", "fin_assign",
           "fin_meta", "fin_tail"}

\* First statement of the finally block
FinallyPc == IF variant = "tee_v2" THEN "fin_restore" ELSE "fin_close"

Goto(p) == pc' = p /\ UNCHANGED <<pending, exit_status>>

\* break out of the relay loop
Break == Goto(FinallyPc)

\* an exception leaves the try body: the finally block runs with it pending
Unwind(exc) == pc' = FinallyPc /\ pending' = exc /\ UNCHANGED exit_status

\* the process ends
Die(code) == pc' = "done" /\ exit_status' = code /\ UNCHANGED pending

\* Exit status of the interpreter when main ends with exception exc ("none":
\* main returned; SystemExit carries the code 0 that signal_handler passes).
ExitOf(exc) == IF exc \in {"none", "SystemExit"} THEN 0 ELSE 1

\* An OSError raised by a statement of the loop body outside the inner handlers:
\* tee_v2's bare except breaks; tee's except Exception logs an error record.
LoopRaise == IF variant = "tee_v2" THEN Break ELSE Goto("err_write")

\* The locals rlist and data are read only while an iteration serves a descriptor
\* and a chunk is in flight; outside of that they are kept empty.
Serving == LoopPcs \ {"select"}
DataPcs == {"in_write", "in_blocked", "in_count", "in_raw", "in_jw",
            "out_write", "out_blocked", "out_count", "out_raw", "out_jw"}
Frame(d) ==
    /\ rlist' = IF pc' \in Serving THEN rlist ELSE {}
    /\ data' = IF pc' \in DataPcs THEN d ELSE <<>>

\* Where the iteration continues after the stdin branch / after the pty branch
AfterIn  == IF variant = "tee_v2" /\ "master" \in rlist THEN "out_read" ELSE "select"
AfterOut == IF variant = "tee" /\ "stdin" \in rlist THEN "in_read" ELSE "select"

----------------------------------------------------------------------------
\* The tail shipper not started, nothing to follow
NoState == [known |-> FALSE, offset |-> 0]
TailIdle ==
    /\ sh_pc = "stopped"
    /\ from_beginning = FALSE
    /\ log_exists = FALSE
    /\ log = <<>>
    /\ partial = 0
    /\ written = 0
    /\ state = NoState
    /\ state_file = NoState
    /\ seen_size = 0
    /\ batch = <<>>
    /\ sent = 0
    /\ posted = {}
    /\ payloads = EmptyBag
    /\ tail_read = {}
    /\ fresh = TRUE
    /\ runs = 0

\* No record handed to a converter
ConvertIdle ==
    /\ cv_record = EmptyObj
    /\ cv_by = "none"
    /\ cv_out = EmptyObj

\* The cleanup not run, nothing under the base directory
CleanupIdle ==
    /\ cl_pc = "done"
    /\ days_arg = ""
    /\ dry_run = FALSE
    /\ tree = {}
    /\ dirs = {}
    /\ to_delete = {}
    /\ unlinked = {}
    /\ removed_dirs = {}
    /\ cl_exit = 0

\* The generic shipper not started
GenericIdle ==
    /\ gs_pc = "done"
    /\ gs_exists = FALSE
    /\ gs_records = 0
    /\ gs_batch_size = 1
    /\ gs_dry_run = FALSE
    /\ gs_i = 0
    /\ gs_sent = 0
    /\ gs_failed = 0
    /\ gs_posts = <<>>
    /\ gs_exit = 0

\* No gateway running
GatewayIdle ==
    /\ gw_request = [path |-> "", content_length |-> "absent",
                     body |-> [kind |-> "invalid", events |-> <<>>]]
    /\ gw_response = "none"
    /\ gw_file = <<>>
    /\ gw_served = 0

\* No configuration loaded
ConfigIdle ==
    /\ cf_env = [LOKI_URL |-> <<>>, FEDERATION_NODE_ID |-> <<>>]
    /\ cf_toml = <<>>
    /\ cf_legacy = <<>>
    /\ cf_out = <<>>

AuxIdle == GenericIdle /\ GatewayIdle /\ ConfigIdle

\* The recorder before the first statement of main
Start ==
    /\ variant \in Variants
    /\ codex_on_path \in BOOLEAN
    /\ pc = "start"
    /\ pending = "none"
    /\ exit_status = 0
    /\ found = "unknown"
    /\ child = "none"
    /\ wstatus = 0
    /\ pid_bound = FALSE
    /\ master = "none"
    /\ tty = "cooked"
    /\ old_tty_settings = "none"
    /\ stdin_nonblock = FALSE
    /\ term_size = INITIAL_SIZE
    /\ pty_size = UNSET_SIZE
    /\ rlist = {}
    /\ data = <<>>
    /\ chunks = 0
    /\ reads = <<>>
    /\ stdin_eof = FALSE
    /\ master_eio = FALSE
    /\ bytes_in = 0
    /\ bytes_out = 0
    /\ counters_bound = FALSE
    /\ prev_hash = None
    /\ line_hash = None
    /\ exit_code = 0
    /\ raw = <<>>
    /\ jsonl = <<>>
    /\ meta = NoMeta
    /\ files = {}
    /\ pty_in = <<>>
    /\ stdout = <<>>
    /\ signals = 0

\* A plain start of either recorder, on a terminal or not
Init ==
    /\ Start
    /\ stdin_isatty \in BOOLEAN
    /\ args = PlainArgs
    /\ include_text = FALSE /\ TailIdle /\ ConvertIdle /\ CleanupIdle /\ AuxIdle

\* A start on a terminal, plain or resuming a codex session
InitResume ==
    /\ Start
    /\ stdin_isatty = TRUE
    /\ args \in {PlainArgs, ResumeArgs}
    /\ include_text = FALSE /\ TailIdle /\ ConvertIdle /\ CleanupIdle /\ AuxIdle

\* No recorder running: the state the other programs are looked at in
RecorderIdle ==
    /\ Start
    /\ variant = "tee_v2"
    /\ codex_on_path = TRUE
    /\ stdin_isatty = FALSE
    /\ args = PlainArgs

----------------------------------------------------------------------------
(* Session start *)

\* The PATH check had it reported the missing executable and carried on
CheckCodex_NoExit ==
    /\ pc = "start"
    /\ found' = IF codex_on_path THEN "yes" ELSE "no"
    /\ Goto("paths")
    /\ UNCHANGED <<v_tools, v_env, v_child, pid_bound, master, v_tty, v_loc, v_io, v_cnt, v_hash,
                   exit_code, v_files, v_streams, signals>>

\* if shutil.which("codex") is None: sys.exit(127)
CheckCodex ==
    /\ pc = "start"
    /\ IF codex_on_path
       THEN found' = "yes" /\ Goto("paths")
       ELSE found' = "no" /\ Die(EXIT_NOT_FOUND)
    /\ UNCHANGED <<v_tools, v_env, v_child, pid_bound, master, v_tty, v_loc, v_io, v_cnt, v_hash,
                   exit_code, v_files, v_streams, signals>>

\* detect_resume_mode, ensure_log_paths, write_meta
EnsurePaths ==
    /\ pc = "paths"
    /\ meta' = write_meta(ensure_log_paths(SESSION_ID).meta)
    /\ files' = files \cup {"meta"}
    /\ Goto("resume_meta")
    /\ UNCHANGED <<v_tools, v_env, found, v_child, pid_bound, master, v_tty, v_loc, v_io, v_cnt,
                   v_hash, exit_code, raw, jsonl, v_streams, signals>>

\* if codex_uuid: the metadata is rewritten with codex_session_uuid and
\* is_resume; then the banner and prev_hash = None
ResumeMeta ==
    /\ pc = "resume_meta"
    /\ meta' = IF codex_uuid # ""
               THEN [meta EXCEPT !.codex_session_uuid = codex_uuid, !.is_resume = TRUE]
               ELSE meta
    /\ prev_hash' = None
    /\ Goto("start_write")
    /\ UNCHANGED <<v_tools, v_env, found, v_child, pid_bound, master, v_tty, v_loc, v_io, v_cnt,
                   line_hash, exit_code, raw, jsonl, files, v_streams, signals>>

\* append_jsonl up to and including the file write: either the line is appended
\* and its digest is on its way back, or the append raises OSError.
AppendJsonlWrite(obj, next, failed) ==
    \/ /\ jsonl' = Append(jsonl, JsonLine(obj, prev_hash))
       /\ line_hash' = compute_sha256(JsonLine(obj, prev_hash))
       /\ files' = files \cup {"jsonl"}
       /\ Goto(next)
       /\ UNCHANGED <<prev_hash, raw, meta, child>>
    \/ /\ failed
       /\ UNCHANGED <<v_hash, v_files>>

\* The call site had it dropped the digest append_jsonl returns
AssignPrevHash_Dropped ==
    /\ prev_hash' = prev_hash
    /\ line_hash' = None

\* prev_hash = <value returned by append_jsonl>
AssignPrevHash ==
    /\ prev_hash' = line_hash
    /\ line_hash' = None

\* prev_hash = append_jsonl(jsonl_path, session_start_record, prev_hash): the write
StartWrite ==
    /\ pc = "start_write"
    /\ AppendJsonlWrite(SessionStartRecord, "start_assign", Die(1) /\ UNCHANGED child)
    /\ UNCHANGED <<v_tools, v_env, found, wstatus, pid_bound, master, v_tty, v_loc, v_io, v_cnt,
                   exit_code, v_streams, signals>>

StartAssign ==
    /\ pc = "start_assign"
    /\ AssignPrevHash
    /\ Goto(IF variant = "tee_v2" THEN "pre_try" ELSE "fork")
    /\ UNCHANGED <<v_tools, v_env, found, v_child, pid_bound, master, v_tty, v_loc, v_io, v_cnt,
                   exit_code, v_files, v_streams, signals>>

\* What a call of publish_federation_event or ship_to_loki can come to: the sink
\* is switched off, no helper binary is found, subprocess.Popen raises, or the
\* helper is launched in a session of its own (and may never finish).
SinkOutcomes == {"disabled", "no_helper", "popen_failed", "launched"}

\* Return value of publish_federation_event / ship_to_loki
SinkResult(o) == o = "launched"

\* A sink call had it let the exception of a failed launch escape
SinkCall_Uncaught(o, continue) == IF o = "popen_failed" THEN Die(1) ELSE continue

\* A sink call in main: every exception is caught inside the callee, the Popen
\* object and the returned flag are dropped, and main goes on
SinkCall(o, continue) == SinkResult(o) \in BOOLEAN /\ continue

\* tee_v2: publish_federation_event (detached helper), then the terminal
\* attributes are captured when stdin is a terminal
PreTry ==
    /\ pc = "pre_try"
    /\ variant = "tee_v2"
    /\ old_tty_settings' = IF stdin_isatty THEN tty ELSE "none"
    /\ \E o \in SinkOutcomes : SinkCall(o, Goto("fork"))
    /\ UNCHANGED <<v_tools, v_env, found, v_child, pid_bound, master, tty, stdin_nonblock, pty_size,
                   v_loc, v_io, v_cnt, v_hash, exit_code, v_files, v_streams, signals>>

\* pid, master_fd = pty.fork()
Fork ==
    /\ pc = "fork"
    /\ \/ /\ child' = "running"
          /\ pid_bound' = TRUE
          /\ master' = "open"
          /\ Goto("setup")
       \/ /\ IF variant = "tee_v2" THEN Unwind("OSError") ELSE Die(1)
          /\ UNCHANGED <<child, pid_bound, master>>
    /\ UNCHANGED <<v_tools, v_env, found, wstatus, v_tty, v_loc, v_io, v_cnt, v_hash, exit_code,
                   v_files, v_streams, signals>>

\* copy_terminal_size(stdin_fd, master_fd): TIOCGWINSZ on stdin, TIOCSWINSZ on
\* the master; the first fails when stdin is no terminal, and the bare except
\* drops the error.  The result is the size the master has afterwards.
copy_terminal_size(src_size, dst_size) == IF stdin_isatty THEN src_size ELSE dst_size

\* tee_v2: copy_terminal_size, tty.setraw, O_NONBLOCK on the master, counters;
\* tee: counters, O_NONBLOCK on stdin
Setup ==
    /\ pc = "setup"
    /\ bytes_in' = 0
    /\ bytes_out' = 0
    /\ counters_bound' = TRUE
    /\ tty' = IF variant = "tee_v2" /\ stdin_isatty THEN "raw" ELSE tty
    /\ stdin_nonblock' = IF variant = "tee" THEN TRUE ELSE stdin_nonblock
    /\ pty_size' = IF variant = "tee_v2" THEN copy_terminal_size(term_size, pty_size) ELSE pty_size
    /\ Goto("select")
    /\ UNCHANGED <<v_tools, v_env, found, v_child, pid_bound, master, old_tty_settings, v_loc, v_io,
                   v_hash, exit_code, v_files, v_streams, signals>>

----------------------------------------------------------------------------
(* Relay loop *)

\* rlist, _, _ = select.select([master_fd, stdin_fd], [], []): blocks until at
\* least one descriptor is ready; tee_v2 serves stdin first, tee the master first.
Select ==
    /\ pc = "select"
    /\ \E r \in (SUBSET Descriptors) \ {{}} :
          /\ rlist' = r
          /\ Goto(IF variant = "tee_v2"
                  THEN (IF "stdin" \in r THEN "in_read" ELSE "out_read")
                  ELSE (IF "master" \in r THEN "out_read" ELSE "in_read"))
    /\ data' = <<>>
    /\ UNCHANGED <<v_tools, v_env, found, v_child, pid_bound, master, v_tty, v_io,
                   v_cnt, v_hash, exit_code, v_files, v_streams, signals>>

\* Byte counts a successful os.write can return for a chunk: all of it, or
\* (descriptor in non-blocking mode) a non-empty prefix.
WriteCounts(chunk, nonblocking) ==
    IF nonblocking THEN 1..Len(chunk) ELSE {Len(chunk)}

\* data = os.read(stdin_fd, n)
InRead ==
    /\ pc = "in_read"
    /\ \/ /\ chunks < MaxChunks
          /\ chunks' = chunks + 1
          /\ Goto("in_write")
          /\ \E d \in StdinChunks :
                Frame(d) /\ reads' = Append(reads, [fd |-> "stdin", data |-> d])
          /\ UNCHANGED <<stdin_eof, master>>
       \/ \* b"": end of file.  tee closes the master before it breaks.
          /\ stdin_eof' = TRUE
          /\ master' = IF variant = "tee" THEN "closed" ELSE master
          /\ Break
          /\ Frame(data)
          /\ UNCHANGED <<chunks, reads>>
       \/ \* OSError: tee_v2 breaks; tee continues on EAGAIN and breaks otherwise
          /\ \E e \in (IF stdin_nonblock THEN {"EAGAIN", "EIO"} ELSE {"EIO"}) :
                IF variant = "tee" /\ e = "EAGAIN" THEN Goto("select") ELSE Break
          /\ Frame(data)
          /\ UNCHANGED <<chunks, reads, stdin_eof, master>>
    /\ UNCHANGED <<v_tools, v_env, found, v_child, pid_bound, v_tty, master_eio, v_cnt, v_hash,
                   exit_code, v_files, v_streams, signals>>

\* os.write(master_fd, data); the return value is not looked at.  tee_v2 has
\* put the master in non-blocking mode; tee has not, and its write sleeps while
\* the child does not read its input.
InWrite ==
    /\ pc \in {"in_write", "in_blocked"}
    /\ \/ /\ \E n \in WriteCounts(data, variant = "tee_v2") :
                pty_in' = pty_in \o SubSeq(data, 1, n)
          /\ Goto("in_count")
       \/ /\ pc = "in_write" /\ variant = "tee" /\ child = "running"
          /\ Goto("in_blocked")
          /\ UNCHANGED pty_in
       \/ \* EIO: the slave side is closed; EAGAIN: the non-blocking master is full
          /\ \E e \in (IF child # "running" THEN {"EIO"} ELSE {})
                      \cup (IF variant = "tee_v2" THEN {"EAGAIN"} ELSE {}) :
                IF variant = "tee_v2" \/ e = "EIO" THEN Break ELSE LoopRaise
          /\ UNCHANGED pty_in
    /\ Frame(data)
    /\ UNCHANGED <<v_tools, v_env, found, v_child, pid_bound, master, v_tty, v_io, v_cnt, v_hash,
                   exit_code, v_files, stdout, signals>>

\* bytes_in += len(data)
InCount ==
    /\ pc = "in_count"
    /\ bytes_in' = bytes_in + Len(data)
    /\ Goto("in_raw")
    /\ Frame(data)
    /\ UNCHANGED <<v_tools, v_env, found, v_child, pid_bound, master, v_tty, v_io, bytes_out,
                   counters_bound, v_hash, exit_code, v_files, v_streams, signals>>

\* Errnos with which an append to a transcript file can fail (the file system
\* under ~/.codexlogs decides; the handlers of the pty branch tell EIO and
\* EAGAIN from the rest)
AppendErrnos == {"ENOSPC", "EIO", "EAGAIN"}

\* append_raw(raw_path, data): appended whole, or OSError; `failed` is where
\* control goes on OSError
AppendRaw(next, failed) ==
    \/ /\ raw' = raw \o data
       /\ files' = files \cup {"raw"}
       /\ Goto(next)
       /\ UNCHANGED child
    \/ /\ failed
       /\ UNCHANGED <<raw, files>>

\* tee_v2's stdin branch: except OSError: break
InFailed == UNCHANGED child /\ (IF variant = "tee_v2" THEN Break ELSE LoopRaise)

InRaw ==
    /\ pc = "in_raw"
    /\ AppendRaw("in_jw", InFailed)
    /\ Frame(data)
    /\ UNCHANGED <<v_tools, v_env, found, wstatus, pid_bound, master, v_tty, v_io, v_cnt, v_hash,
                   exit_code, jsonl, meta, v_streams, signals>>

InJsonlWrite ==
    /\ pc = "in_jw"
    /\ AppendJsonlWrite(IoRecord("in", data, bytes_in), "in_ja", InFailed)
    /\ Frame(data)
    /\ UNCHANGED <<v_tools, v_env, found, wstatus, pid_bound, master, v_tty, v_io, v_cnt,
                   exit_code, v_streams, signals>>

InJsonlAssign ==
    /\ pc = "in_ja"
    /\ AssignPrevHash
    /\ Goto(AfterIn)
    /\ Frame(data)
    /\ UNCHANGED <<v_tools, v_env, found, v_child, pid_bound, master, v_tty, v_io, v_cnt,
                   exit_code, v_files, v_streams, signals>>

\* The handler had it treated every errno as would-block and polled again
OutError_Repoll(e) == UNCHANGED child /\ Goto("select")

\* tee_v2, except OSError as e of the pty branch (lines 417-433): on EIO / EAGAIN
\* probe the child with waitpid(pid, WNOHANG), which reaps it if it has exited;
\* then EIO breaks, EAGAIN continues; any other errno is re-raised into the bare
\* except of the loop, which breaks.
OutError(e) ==
    IF e \in {"EIO", "EAGAIN"}
    THEN IF child = "exited"
         THEN child' = "reaped" /\ Break
         ELSE /\ UNCHANGED child
              /\ IF e = "EIO" THEN Break ELSE Goto("select")
    ELSE UNCHANGED child /\ Break

\* What an OSError with errno e does in the pty branch
OutFailed(e) ==
    IF variant = "tee_v2"
    THEN OutError(e)
    ELSE UNCHANGED child /\ (IF e = "EIO" /\ pc = "out_read" THEN Break ELSE LoopRaise)

\* data = os.read(master_fd, n)
OutRead ==
    /\ pc = "out_read"
    /\ \/ /\ chunks < MaxChunks
          /\ chunks' = chunks + 1
          /\ Goto("out_write")
          /\ \E d \in PtyChunks :
                Frame(d) /\ reads' = Append(reads, [fd |-> "master", data |-> d])
          /\ UNCHANGED <<child, master_eio>>
       \/ \* b"": the slave side is closed
          /\ child # "running"
          /\ Break
          /\ Frame(data)
          /\ UNCHANGED <<chunks, reads, child, master_eio>>
       \/ \* EIO: the slave side is closed; EAGAIN: nothing to read (non-blocking)
          /\ \E e \in (IF child # "running" THEN {"EIO"} ELSE {})
                      \cup (IF variant = "tee_v2" THEN {"EAGAIN"} ELSE {}) :
                OutFailed(e) /\ master_eio' = (master_eio \/ e = "EIO")
          /\ Frame(data)
          /\ UNCHANGED <<chunks, reads>>
    /\ UNCHANGED <<v_tools, v_env, found, wstatus, pid_bound, master, v_tty, stdin_eof,
                   v_cnt, v_hash, exit_code, v_files, v_streams, signals>>

\* os.write(sys.stdout.fileno(), data); sys.stdout.flush().  The recorder's stdout
\* can be in non-blocking mode (inherited so, or sharing the terminal's open file
\* description with the stdin that tee switches to O_NONBLOCK); neither recorder
\* sets the mode of stdout, and in blocking mode the write sleeps while the
\* terminal or pipe behind stdout is not drained.
OutWrite ==
    /\ pc \in {"out_write", "out_blocked"}
    /\ \/ /\ \E n \in WriteCounts(data, pc = "out_write") :
                stdout' = stdout \o SubSeq(data, 1, n)
          /\ Goto("out_count")
          /\ UNCHANGED child
       \/ /\ pc = "out_write"
          /\ Goto("out_blocked")
          /\ UNCHANGED <<stdout, child>>
       \/ /\ \E e \in {"EAGAIN", "EPIPE"} : OutFailed(e)
          /\ UNCHANGED stdout
    /\ Frame(data)
    /\ UNCHANGED <<v_tools, v_env, found, wstatus, pid_bound, master, v_tty, v_io, v_cnt, v_hash,
                   exit_code, v_files, pty_in, signals>>

\* bytes_out += len(data)
OutCount ==
    /\ pc = "out_count"
    /\ bytes_out' = bytes_out + Len(data)
    /\ Goto("out_raw")
    /\ Frame(data)
    /\ UNCHANGED <<v_tools, v_env, found, v_child, pid_bound, master, v_tty, v_io, bytes_in,
                   counters_bound, v_hash, exit_code, v_files, v_streams, signals>>

OutRaw ==
    /\ pc = "out_raw"
    /\ \E e \in AppendErrnos : AppendRaw("out_jw", OutFailed(e))
    /\ Frame(data)
    /\ UNCHANGED <<v_tools, v_env, found, wstatus, pid_bound, master, v_tty, v_io, v_cnt, v_hash,
                   exit_code, jsonl, meta, v_streams, signals>>

OutJsonlWrite ==
    /\ pc = "out_jw"
    /\ \E e \in AppendErrnos :
          AppendJsonlWrite(IoRecord("out", data, bytes_out), "out_ja", OutFailed(e))
    /\ Frame(data)
    /\ UNCHANGED <<v_tools, v_env, found, wstatus, pid_bound, master, v_tty, v_io, v_cnt,
                   exit_code, v_streams, signals>>

OutJsonlAssign ==
    /\ pc = "out_ja"
    /\ AssignPrevHash
    /\ Goto(AfterOut)
    /\ Frame(data)
    /\ UNCHANGED <<v_tools, v_env, found, v_child, pid_bound, master, v_tty, v_io, v_cnt,
                   exit_code, v_files, v_streams, signals>>

\* tee, except Exception as e: the error record is appended, then the exception
\* is re-raised (an append that fails raises in its place)
ErrWrite ==
    /\ pc = "err_write"
    /\ AppendJsonlWrite(ErrorRecord, "err_assign", Unwind("Exception") /\ UNCHANGED child)
    /\ UNCHANGED <<v_tools, v_env, found, wstatus, pid_bound, master, v_tty, v_loc, v_io, v_cnt,
                   exit_code, v_streams, signals>>

ErrAssign ==
    /\ pc = "err_assign"
    /\ AssignPrevHash
    /\ Unwind("Exception")
    /\ UNCHANGED <<v_tools, v_env, found, v_child, pid_bound, master, v_tty, v_loc, v_io, v_cnt,
                   exit_code, v_files, v_streams, signals>>

----------------------------------------------------------------------------
(* Finalization: the finally block of main *)

\* tee_v2: termios.tcsetattr(stdin_fd, TCSADRAIN, old_tty_settings)
FinRestore ==
    /\ pc = "fin_restore"
    /\ tty' = IF stdin_isatty /\ old_tty_settings # "none" THEN old_tty_settings ELSE tty
    /\ Goto("fin_wait")
    /\ UNCHANGED <<v_tools, v_env, found, v_child, pid_bound, master, old_tty_settings,
                   stdin_nonblock, pty_size, v_loc, v_io, v_cnt, v_hash, exit_code, v_files, v_streams, signals>>

\* tee: os.close(master_fd), errors ignored
FinClose ==
    /\ pc = "fin_close"
    /\ master' = IF master = "open" THEN "closed" ELSE master
    /\ Goto("fin_wait")
    /\ UNCHANGED <<v_tools, v_env, found, v_child, pid_bound, v_tty, v_loc, v_io, v_cnt, v_hash,
                   exit_code, v_files, v_streams, signals>>

\* try: _, exit_status = os.waitpid(pid, 0); exit_code = ...  except: exit_code = -1
\* The call blocks while the child runs; it fails with ECHILD when the child was
\* reaped before, and with NameError when pid was never assigned.
FinWait ==
    /\ pc = "fin_wait"
    /\ \/ /\ ~pid_bound
          /\ exit_code' = -1
          /\ UNCHANGED child
       \/ /\ pid_bound /\ child = "exited"
          /\ child' = "reaped"
          /\ exit_code' = ExitCodeOf(variant, wstatus)
       \/ /\ pid_bound /\ child = "reaped"
          /\ exit_code' = -1
          /\ UNCHANGED child
    /\ Goto("fin_write")
    /\ UNCHANGED <<v_tools, v_env, found, wstatus, pid_bound, master, v_tty, v_loc, v_io, v_cnt, v_hash,
                   v_files, v_streams, signals>>

\* prev_hash = append_jsonl(jsonl_path, session_end_record, prev_hash): building
\* the record reads bytes_in / bytes_out (NameError when they were never
\* assigned); an exception here leaves the finally block.
FinWrite ==
    /\ pc = "fin_write"
    /\ IF counters_bound
       THEN AppendJsonlWrite(SessionEndRecord(exit_code, bytes_in, bytes_out), "fin_assign",
                             Die(1) /\ UNCHANGED child)
       ELSE Die(1) /\ UNCHANGED <<v_hash, v_files, child>>
    /\ UNCHANGED <<v_tools, v_env, found, wstatus, pid_bound, master, v_tty, v_loc, v_io, v_cnt,
                   exit_code, v_streams, signals>>

FinAssign ==
    /\ pc = "fin_assign"
    /\ AssignPrevHash
    /\ Goto("fin_meta")
    /\ UNCHANGED <<v_tools, v_env, found, v_child, pid_bound, master, v_tty, v_loc, v_io, v_cnt,
                   exit_code, v_files, v_streams, signals>>

\* The metadata update had it left the byte totals out
MetaUpdate_NoTotals(m) ==
    [m EXCEPT !.ended = TRUE, !.exit_code = exit_code,
              !.raw_log_size = IF "raw" \in files THEN Len(raw) ELSE 0,
              !.jsonl_log_size = IF "jsonl" \in files THEN Len(jsonl) ELSE 0,
              !.final_hash = prev_hash]

\* The metadata update had it left the chain hash out
MetaUpdate_NoHash(m) ==
    [m EXCEPT !.ended = TRUE, !.exit_code = exit_code, !.total_bytes_in = bytes_in,
              !.total_bytes_out = bytes_out,
              !.raw_log_size = IF "raw" \in files THEN Len(raw) ELSE 0,
              !.jsonl_log_size = IF "jsonl" \in files THEN Len(jsonl) ELSE 0]

\* The metadata update: read, update, rewrite; a failure is caught and reported
MetaUpdate(m) ==
    [m EXCEPT !.ended = TRUE, !.exit_code = exit_code, !.total_bytes_in = bytes_in,
              !.total_bytes_out = bytes_out,
              !.raw_log_size = IF "raw" \in files THEN Len(raw) ELSE 0,
              !.jsonl_log_size = IF "jsonl" \in files THEN Len(jsonl) ELSE 0,
              !.final_hash = prev_hash]

\* The metadata update had it not been wrapped in try / except Exception
FinMeta_Uncaught ==
    /\ pc = "fin_meta"
    /\ \/ meta' = MetaUpdate(meta) /\ Goto("fin_tail")
       \/ UNCHANGED meta /\ Die(1)
       \/ meta' = TruncatedMeta /\ Die(1)
    /\ UNCHANGED <<v_tools, v_env, found, v_child, pid_bound, master, v_tty, v_loc, v_io, v_cnt, v_hash,
                   exit_code, raw, jsonl, files, v_streams, signals>>

\* The metadata update had its handler logged the failure as an error record
FinMeta_FailureLogged ==
    /\ pc = "fin_meta"
    /\ \/ meta' = MetaUpdate(meta) /\ UNCHANGED jsonl
       \/ UNCHANGED meta /\ jsonl' = Append(jsonl, JsonLine(ErrorRecord, prev_hash))
    /\ Goto("fin_tail")
    /\ UNCHANGED <<v_tools, v_env, found, v_child, pid_bound, master, v_tty, v_loc, v_io, v_cnt, v_hash,
                   exit_code, raw, files, v_streams, signals>>

\* The update is written, or the read fails and the file stays as it was, or
\* the rewrite fails after the file has been opened for writing
FinMeta ==
    /\ pc = "fin_meta"
    /\ \/ meta' = MetaUpdate(meta)
       \/ UNCHANGED meta
       \/ meta' = TruncatedMeta
    /\ Goto("fin_tail")
    /\ UNCHANGED <<v_tools, v_env, found, v_child, pid_bound, master, v_tty, v_loc, v_io, v_cnt, v_hash,
                   exit_code, raw, jsonl, files, v_streams, signals>>

\* The rest of the finally block (sink publication, summary), then main ends:
\* it returns, or the pending exception goes on to the interpreter.
FinTail ==
    /\ pc = "fin_tail"
    /\ IF variant = "tee_v2"
       THEN \E published, shipped \in SinkOutcomes :
               SinkCall(published, SinkCall(shipped, Die(ExitOf(pending))))
       ELSE Die(ExitOf(pending))
    /\ UNCHANGED <<v_tools, v_env, found, v_child, pid_bound, master, v_tty, v_loc, v_io, v_cnt, v_hash,
                   exit_code, v_files, v_streams, signals>>

----------------------------------------------------------------------------
(* Environment *)

\* The child ends, by exit(code) or by a signal
ChildExit ==
    /\ child = "running"
    /\ pc # "done"
    /\ child' = "exited"
    /\ \E s \in ChildStatuses : wstatus' = s
    /\ UNCHANGED <<v_tools, v_env, pc, pending, exit_status, found, pid_bound, master, v_tty, v_loc, v_io,
                   v_cnt, v_hash, exit_code, v_files, v_streams, signals>>

\* Positions outside every try statement
OutsideTry ==
    IF variant = "tee_v2"
    THEN {"start", "paths", "resume_meta", "start_write", "start_assign", "pre_try"}
    ELSE {"start", "paths", "resume_meta", "start_write", "start_assign", "fork", "setup"}

\* signal_handler(signum, frame): sys.exit(0).  main installs it for SIGINT and
\* for SIGTERM, so the interpreter's default SIGINT handler (which would raise
\* KeyboardInterrupt) is replaced; either signal raises SystemExit at the
\* current position of main.
signal_handler == "SystemExit"

\* The except clauses around the relay loop, for an exception exc raised by a
\* signal handler inside the loop.  tee_v2 (lines 435-440): KeyboardInterrupt
\* writes the interrupt byte to the pty master and continues, anything else
\* breaks.  tee (lines 228-241): KeyboardInterrupt is reported and SystemExit,
\* not being an Exception, passes; both go on to the finally block.
LoopExcept(exc) ==
    IF variant = "tee_v2"
    THEN IF exc = "KeyboardInterrupt"
         THEN pty_in' = Append(pty_in, ETX) /\ Goto("select")
         ELSE UNCHANGED pty_in /\ Break
    ELSE /\ UNCHANGED pty_in
         /\ IF exc = "KeyboardInterrupt" THEN Break ELSE Unwind(exc)

\* Where an exception raised by a signal handler goes.  Outside every try it ends
\* the process; before the loop, inside tee_v2's try, it runs the finally block;
\* the bare excepts around os.close and os.waitpid in the finally block swallow
\* it; anywhere else in the finally block it leaves the block.
SignalEffect(exc) ==
    IF pc \in LoopPcs \cup ErrPcs THEN LoopExcept(exc) /\ UNCHANGED exit_code
    ELSE /\ UNCHANGED pty_in
         /\ IF pc \in OutsideTry THEN Die(ExitOf(exc)) /\ UNCHANGED exit_code
            ELSE IF pc \in {"fork", "setup"} THEN Unwind(exc) /\ UNCHANGED exit_code
            ELSE IF pc = "fin_close" THEN Goto("fin_wait") /\ UNCHANGED exit_code
            ELSE IF pc = "fin_wait" THEN Goto("fin_write") /\ exit_code' = -1
            ELSE Die(ExitOf(exc)) /\ UNCHANGED exit_code

\* Delivery of SIGINT or SIGTERM to the recorder
Signal ==
    /\ pc # "done"
    /\ signals < MaxSignals
    /\ signals' = signals + 1
    /\ SignalEffect(signal_handler)
    /\ line_hash' = None
    /\ Frame(data)
    /\ UNCHANGED <<v_tools, v_env, found, v_child, pid_bound, master, v_tty, v_io, v_cnt,
                   prev_hash, v_files, stdout>>

\* The terminal is resized and SIGWINCH reaches tee_v2, its handler raising an
\* exception at the current position of main
Winch_Raises ==
    /\ variant = "tee_v2"
    /\ pc # "done"
    /\ \E s \in WindowSizes \ {term_size} : term_size' = s
    /\ SignalEffect("OSError")
    /\ line_hash' = None
    /\ Frame(data)
    /\ UNCHANGED <<v_tools, variant, codex_on_path, stdin_isatty, args, found, v_child, pid_bound,
                   master, v_tty, v_io, v_cnt, prev_hash, v_files, stdout, signals>>

\* The terminal is resized and SIGWINCH reaches tee_v2: handle_winch copies the
\* size when the global master_fd has been assigned, and returns.  main installs
\* the handler in its first statements; tee installs none and ignores the signal.
Winch ==
    /\ variant = "tee_v2"
    /\ pc # "done"
    /\ \E s \in WindowSizes \ {term_size} : term_size' = s
    /\ pty_size' = IF master # "none" THEN copy_terminal_size(term_size', pty_size) ELSE pty_size
    /\ UNCHANGED <<v_tools, variant, codex_on_path, stdin_isatty, args, pc, pending, exit_status,
                   found, v_child, pid_bound, master, tty, old_tty_settings, stdin_nonblock,
                   v_loc, v_io, v_cnt, v_hash, exit_code, v_files, v_streams, signals>>

----------------------------------------------------------------------------
Next ==
    \/ CheckCodex \/ EnsurePaths \/ ResumeMeta \/ StartWrite \/ StartAssign \/ PreTry \/ Fork \/ Setup
    \/ Select
    \/ InRead \/ InWrite \/ InCount \/ InRaw \/ InJsonlWrite \/ InJsonlAssign
    \/ OutRead \/ OutWrite \/ OutCount \/ OutRaw \/ OutJsonlWrite \/ OutJsonlAssign
    \/ ErrWrite \/ ErrAssign
    \/ FinRestore \/ FinClose \/ FinWait \/ FinWrite \/ FinAssign \/ FinMeta \/ FinTail
    \/ ChildExit
    \/ Signal

Spec == Init /\ [][Next]_vars

SpecResume == InitResume /\ [][Next]_vars

\* tee_v2 on a terminal whose window is resized while the recorder runs
NextWinch ==
    \/ CheckCodex \/ EnsurePaths \/ ResumeMeta \/ StartWrite \/ StartAssign \/ PreTry \/ Fork \/ Setup
    \/ Select
    \/ InRead \/ InWrite \/ InCount \/ InRaw \/ InJsonlWrite \/ InJsonlAssign
    \/ OutRead \/ OutWrite \/ OutCount \/ OutRaw \/ OutJsonlWrite \/ OutJsonlAssign
    \/ FinRestore \/ FinWait \/ FinWrite \/ FinAssign \/ FinMeta \/ FinTail
    \/ ChildExit
    \/ Signal
    \/ Winch

InitWinch == Init /\ variant = "tee_v2"

SpecWinch == InitWinch /\ [][NextWinch]_vars

----------------------------------------------------------------------------
(* Shippers: lib/codex-generic-shipper.py, lib/codex-tail-shipper.py and    *)
(* lib/codex-loki-shipper.py.  A dict the converters build has the shape of *)
(* a transcript record: its present keys and one slot per key; a slot a     *)
(* converter fills with record.get(key) holds the record's slot, whose      *)
(* default stands for None.                                                 *)

\* evt["metadata"] of the generic shipper's to_generic_event
generic_metadata(record, with_text) ==
    LET by_kind ==
            IF record.event = "session_started"
            THEN [EmptyObj EXCEPT !.keys = <<"cmd", "cwd">>,
                                  !.cmd = record.cmd, !.cwd = record.cwd]
            ELSE IF record.event = "session_ended"
            THEN [EmptyObj EXCEPT !.keys = <<"exit_code", "total_bytes_in", "total_bytes_out">>,
                                  !.exit_code = record.exit_code,
                                  !.total_bytes_in = record.total_bytes_in,
                                  !.total_bytes_out = record.total_bytes_out]
            ELSE IF record.direction \in {"in", "out"}
            THEN LET io == [EmptyObj EXCEPT !.keys = <<"direction", "bytes", "total_bytes_in",
                                                       "total_bytes_out">>,
                                            !.direction = record.direction,
                                            !.bytes = record.bytes,
                                            !.total_bytes_in = record.total_bytes_in,
                                            !.total_bytes_out = record.total_bytes_out]
                 IN  IF with_text
                     THEN [io EXCEPT !.keys = Append(@, "text"), !.text = record.text]
                     ELSE io
            ELSE EmptyObj
    IN  IF Has(record, "error")
        THEN [by_kind EXCEPT !.keys = @ \o <<"error", "error_type">>,
                             !.error = record.error, !.error_type = record.error_type]
        ELSE by_kind

\* record.get("event") or record.get("direction") or "log"
generic_kind(record) ==
    IF record.event # "" THEN record.event
    ELSE IF record.direction # "" THEN record.direction
    ELSE "log"

\* to_generic_event had it copied the text whatever include_text says
to_generic_event_TextKept(record, with_text) ==
    [ts |-> record.ts, session_id |-> record.session_id, kind |-> generic_kind(record),
     metadata |-> generic_metadata(record, TRUE)]

\* to_generic_event(record, include_text) of codex-generic-shipper.py
to_generic_event(record, with_text) ==
    [ts |-> record.ts, session_id |-> record.session_id, kind |-> generic_kind(record),
     metadata |-> generic_metadata(record, with_text)]

\* to_generic_event(record, include_text) of codex-tail-shipper.py
tail_to_generic_event(record, with_text) ==
    LET kind == IF record.event # "" THEN record.event
                ELSE IF record.direction # "" THEN record.direction
                ELSE "log"
        started == [EmptyObj EXCEPT !.keys = <<"cmd", "cwd">>,
                                    !.cmd = record.cmd, !.cwd = record.cwd]
        ended == [EmptyObj EXCEPT !.keys = <<"exit_code", "total_bytes_in", "total_bytes_out">>,
                                  !.exit_code = record.exit_code,
                                  !.total_bytes_in = record.total_bytes_in,
                                  !.total_bytes_out = record.total_bytes_out]
        io == [EmptyObj EXCEPT !.keys = <<"direction", "bytes", "total_bytes_in",
                                          "total_bytes_out">>
                                            \o (IF with_text THEN <<"text">> ELSE <<>>),
                               !.direction = record.direction, !.bytes = record.bytes,
                               !.total_bytes_in = record.total_bytes_in,
                               !.total_bytes_out = record.total_bytes_out,
                               !.text = IF with_text THEN record.text ELSE <<>>]
        by_kind == IF record.event = "session_started" THEN started
                   ELSE IF record.event = "session_ended" THEN ended
                   ELSE IF record.direction \in {"in", "out"} THEN io
                   ELSE EmptyObj
        metadata == IF Has(record, "error")
                    THEN [by_kind EXCEPT !.keys = @ \o <<"error", "error_type">>,
                                         !.error = record.error,
                                         !.error_type = record.error_type]
                    ELSE by_kind
    IN  [ts |-> record.ts, session_id |-> record.session_id, kind |-> kind,
         metadata |-> metadata]

\* get_loki_config(): the labels every entry carries
LokiConfig == [job_name |-> "codex", instance |-> "host", federation_node |-> "node"]

\* Nanoseconds since the epoch of an ISO timestamp; the current time when the
\* timestamp does not parse (here: when the record has none)
ts_nano(record) == IF Has(record, "ts") THEN <<"ns", record.ts>> ELSE <<"ns", "now">>

\* convert_to_loki_entry(record, config); json.dumps of the log line is
\* injective, so the line is the dict
convert_to_loki_entry(record, config) ==
    LET labels == [job |-> config.job_name, instance |-> config.instance,
                   federation_node |-> config.federation_node,
                   session_id |-> IF Has(record, "session_id") THEN record.session_id
                                  ELSE "unknown",
                   event_type |-> IF Has(record, "event") THEN record.event
                                  ELSE IF Has(record, "direction") THEN record.direction
                                  ELSE "log"]
        common == [EmptyObj EXCEPT !.keys = <<"ts", "session_id", "event", "direction">>,
                                   !.ts = record.ts, !.session_id = record.session_id,
                                   !.event = record.event, !.direction = record.direction]
        log_data ==
            IF record.event = "session_started"
            THEN [common EXCEPT !.keys = @ \o <<"cmd", "cwd">>,
                                !.cmd = record.cmd, !.cwd = record.cwd]
            ELSE IF record.event = "session_ended"
            THEN [common EXCEPT !.keys = @ \o <<"exit_code", "total_bytes_in",
                                               "total_bytes_out">>,
                                !.exit_code = record.exit_code,
                                !.total_bytes_in = record.total_bytes_in,
                                !.total_bytes_out = record.total_bytes_out]
            ELSE IF record.direction \in {"in", "out"}
            THEN [common EXCEPT !.keys = @ \o <<"bytes", "total_bytes_in", "total_bytes_out">>,
                                !.bytes = record.bytes,
                                !.total_bytes_in = record.total_bytes_in,
                                !.total_bytes_out = record.total_bytes_out]
            ELSE common
    IN  [stream |-> labels, values |-> <<<<ts_nano(record), log_data>>>>]

\* The text io records can carry
Texts == {Decode(d) : d \in StdinChunks \cup PtyChunks}

\* The record with a text field holding t
WithText(record, t) ==
    [record EXCEPT !.keys = IF Has(record, "text") THEN @ ELSE Append(@, "text"), !.text = t]

\* Records of every kind the recorders write, a record of no known kind, and
\* each of them carrying a text
PlainRecords ==
    {SessionStartRecord, ErrorRecord, SessionEndRecord(0, 2, 3),
     [EmptyObj EXCEPT !.keys = <<"ts", "session_id">>, !.ts = NOW, !.session_id = SESSION_ID],
     [EmptyObj EXCEPT !.keys = <<"error">>, !.error = "err"]}
ConverterInputs ==
    PlainRecords
        \cup {IoRecord(dir, d, Len(d)) : dir \in {"in", "out"}, d \in StdinChunks \cup PtyChunks}
        \cup {WithText(r, t) : r \in PlainRecords, t \in Texts}

InitConvert ==
    /\ RecorderIdle /\ TailIdle /\ CleanupIdle /\ AuxIdle
    /\ include_text \in BOOLEAN
    /\ cv_record \in ConverterInputs
    /\ cv_by = "none"
    /\ cv_out = EmptyObj

\* The generic shipper converts the record
GenericConvert ==
    /\ cv_by = "none"
    /\ cv_by' = "generic"
    /\ cv_out' = to_generic_event(cv_record, include_text)
    /\ UNCHANGED <<v_rec, v_aux, v_opts, v_tail, cv_record, v_cleanup>>

\* The tail shipper converts the record
TailConvert ==
    /\ cv_by = "none"
    /\ cv_by' = "tail"
    /\ cv_out' = tail_to_generic_event(cv_record, include_text)
    /\ UNCHANGED <<v_rec, v_aux, v_opts, v_tail, cv_record, v_cleanup>>

\* The loki shipper converts the record
LokiConvert ==
    /\ cv_by = "none"
    /\ cv_by' = "loki"
    /\ cv_out' = convert_to_loki_entry(cv_record, LokiConfig)
    /\ UNCHANGED <<v_rec, v_aux, v_opts, v_tail, cv_record, v_cleanup>>

NextConvert == GenericConvert \/ TailConvert \/ LokiConvert

SpecConvert == InitConvert /\ [][NextConvert]_vars

----------------------------------------------------------------------------
(* Tail shipper: lib/codex-tail-shipper.py following one JSONL file.        *)
(* Positions in the file are counted in lines: the shipper only seeks to 0, *)
(* to the size of the file, or to a position tell() gave at end of file.    *)

MaxRecords == 3
MaxRuns == 2

\* args.batch_size
BatchSize == 2

\* Bytes of one line of the followed file (all lines are taken to have the same
\* length), and the bytes of a line a first, short write puts into the file
LINE_BYTES == 2
PART_BYTES == 1

\* The k-th line a recorder appends to the followed file
LogRecord(k) ==
    [(IF k = 1 THEN SessionStartRecord
      ELSE IF k % 2 = 0 THEN IoRecord("in", <<97>>, k \div 2)
      ELSE IoRecord("out", <<104>>, k \div 2)) EXCEPT !.ts = ToString(k)]

\* st.st_size of the followed file, and the offsets at which its j-th line
\* starts and ends
Size == LINE_BYTES * Len(log) + partial
LineStart(j) == LINE_BYTES * (j - 1)
LineEnd(j) == LINE_BYTES * j

\* Positions of the main loop, inside try / except KeyboardInterrupt
TailLoopPcs == {"rescan", "tail", "post", "save"}

\* The entry main makes for a file it has no offset for
NewEntry == [known |-> TRUE, offset |-> IF from_beginning THEN 0 ELSE Size]

\* load_state had it always started from an empty state
load_state_Forgetful == NoState

\* load_state(): the content of STATE_FILE, {"files": {}} when it cannot be read
load_state == state_file

\* save_state(state): written to a temporary file that replaces STATE_FILE
save_state(st) == state_file' = st

\* tail_file(path, offset): seek to offset and read lines to the end of the file.
\* A line that starts at or after offset and is complete is parsed; the rest of a
\* line offset lies inside, and an unfinished last line, are not JSON and are
\* skipped.  new_offset is f.tell() at the end: the end of the file, or offset
\* itself when offset lies beyond it.
tail_file(offset) ==
    LET first == (offset + LINE_BYTES - 1) \div LINE_BYTES + 1
    IN  [new_offset |-> IF offset > Size THEN offset ELSE Size,
         events     |-> SubSeq(log, first, Len(log))]

InitTail ==
    /\ RecorderIdle /\ ConvertIdle /\ CleanupIdle /\ AuxIdle
    /\ include_text = FALSE
    /\ from_beginning \in BOOLEAN
    /\ sh_pc = "load"
    /\ log_exists = FALSE
    /\ log = <<>>
    /\ partial = 0
    /\ written = 0
    /\ state = NoState
    /\ state_file = NoState
    /\ seen_size = 0
    /\ batch = <<>>
    /\ sent = 0
    /\ posted = {}
    /\ payloads = EmptyBag
    /\ tail_read = {}
    /\ fresh = TRUE
    /\ runs = 1

\* state = load_state(); files_state = state.setdefault("files", {})
TailLoad ==
    /\ sh_pc = "load"
    /\ state' = load_state
    /\ sh_pc' = "init"
    /\ UNCHANGED <<v_rec, v_aux, v_opts, v_log, state_file, seen_size, batch, sent, v_posts, tail_read,
                   fresh, runs, v_convert, v_cleanup>>

\* Initialize offsets for new files
TailInitOffsets ==
    /\ sh_pc = "init"
    /\ state' = IF log_exists /\ ~state.known THEN NewEntry ELSE state
    /\ sh_pc' = "rescan"
    /\ UNCHANGED <<v_rec, v_aux, v_opts, v_log, state_file, seen_size, batch, sent, v_posts, tail_read,
                   fresh, runs, v_convert, v_cleanup>>

\* Rescan had it keep an offset that lies beyond the size of the file
rescan_offset_Kept(offset, size) == offset

\* Rescan: "If file was truncated or rotated, reset offset"
rescan_offset(offset, size) == IF offset > size THEN 0 ELSE offset

\* Rescan for new files; an offset beyond the size of the file is reset
TailRescan ==
    /\ sh_pc = "rescan"
    /\ state' = IF ~log_exists THEN state
                ELSE IF ~state.known THEN NewEntry
                ELSE [state EXCEPT !.offset = rescan_offset(@, Size)]
    /\ seen_size' = IF log_exists THEN Size ELSE seen_size
    /\ sh_pc' = "tail"
    /\ UNCHANGED <<v_rec, v_aux, v_opts, v_log, state_file, batch, sent, v_posts, tail_read,
                   fresh, runs, v_convert, v_cleanup>>

\* Tail: the records after the offset become events of the batch and the offset
\* becomes tail_file's new offset
TailRead ==
    /\ sh_pc = "tail"
    /\ LET read == IF state.known /\ log_exists THEN tail_file(state.offset)
                   ELSE [new_offset |-> state.offset, events |-> <<>>]
           recs == read.events
       IN  /\ batch' = [j \in 1..Len(recs) |-> tail_to_generic_event(recs[j], include_text)]
           /\ tail_read' = tail_read \cup {recs[j].ts : j \in 1..Len(recs)}
           /\ state' = [state EXCEPT !.offset = read.new_offset]
           /\ sh_pc' = IF recs # <<>> THEN "post" ELSE "save"
    /\ sent' = 0
    /\ fresh' = FALSE
    /\ UNCHANGED <<v_rec, v_aux, v_opts, v_log, state_file, seen_size, v_posts, runs, v_convert,
                   v_cleanup>>

\* One chunk of the batch goes to post_json, which returns True (2xx) or False;
\* the loop goes on to the next chunk either way
TailPost ==
    /\ sh_pc = "post"
    /\ LET last == IF sent + BatchSize < Len(batch) THEN sent + BatchSize ELSE Len(batch)
           events == {batch[j] : j \in (sent + 1)..last}
       IN  /\ \E ok \in BOOLEAN : posted' = IF ok THEN posted \cup events ELSE posted
           /\ payloads' = payloads (+) SetToBag({e.ts : e \in events})
           /\ IF last < Len(batch)
              THEN sent' = last /\ UNCHANGED <<batch, sh_pc>>
              ELSE sent' = 0 /\ batch' = <<>> /\ sh_pc' = "save"
    /\ UNCHANGED <<v_rec, v_aux, v_opts, v_log, state, state_file, seen_size, tail_read, fresh, runs,
                   v_convert, v_cleanup>>

\* save_state(state); time.sleep(args.interval)
TailSave ==
    /\ sh_pc = "save"
    /\ save_state(state)
    /\ sh_pc' = "rescan"
    /\ UNCHANGED <<v_rec, v_aux, v_opts, v_log, state, seen_size, batch, sent, v_posts, tail_read,
                   fresh, runs, v_convert, v_cleanup>>

\* SIGINT: KeyboardInterrupt.  Inside the loop the handler saves the state and
\* main returns; before the loop the process ends with the traceback.
TailInterrupt ==
    /\ sh_pc # "stopped"
    /\ IF sh_pc \in TailLoopPcs THEN save_state(state) ELSE UNCHANGED state_file
    /\ sh_pc' = "stopped"
    /\ state' = NoState /\ batch' = <<>> /\ sent' = 0 /\ seen_size' = 0
    /\ UNCHANGED <<v_rec, v_aux, v_opts, v_log, v_posts, tail_read, fresh, runs,
                   v_convert, v_cleanup>>

\* SIGTERM, SIGKILL, a crash: the process ends where it is
TailKill ==
    /\ sh_pc # "stopped"
    /\ sh_pc' = "stopped"
    /\ state' = NoState /\ batch' = <<>> /\ sent' = 0 /\ seen_size' = 0
    /\ UNCHANGED <<v_rec, v_aux, v_opts, v_log, state_file, v_posts, tail_read, fresh, runs,
                   v_convert, v_cleanup>>

\* The shipper is started again
TailRestart ==
    /\ sh_pc = "stopped"
    /\ runs < MaxRuns
    /\ runs' = runs + 1
    /\ sh_pc' = "load"
    /\ fresh' = TRUE
    /\ UNCHANGED <<v_rec, v_aux, v_opts, v_log, state, state_file, seen_size, batch, sent, v_posts,
                   tail_read, v_convert, v_cleanup>>

\* A recorder appends a line to the followed file (creating it): append_jsonl's
\* f.write(line_bytes), the whole line reaching the file at once
LogAppend ==
    /\ written < MaxRecords
    /\ partial = 0
    /\ log' = Append(log, LogRecord(written + 1))
    /\ written' = written + 1
    /\ log_exists' = TRUE
    /\ UNCHANGED <<v_rec, v_aux, v_opts, partial, v_ship, v_convert, v_cleanup>>

NextTail ==
    \/ TailLoad \/ TailInitOffsets \/ TailRescan \/ TailRead \/ TailPost \/ TailSave
    \/ TailInterrupt \/ TailKill \/ TailRestart
    \/ LogAppend

SpecTail == InitTail /\ [][NextTail]_vars

\* append_jsonl's f.write(line_bytes) when the line reaches the file in two
\* steps (a line longer than a page of the file system's cache, a short write):
\* the first bytes of the line are in the file and can be read
LogWritePart ==
    /\ written < MaxRecords
    /\ partial = 0
    /\ partial' = PART_BYTES
    /\ log_exists' = TRUE
    /\ UNCHANGED <<v_rec, v_aux, v_opts, log, written, v_ship, v_convert, v_cleanup>>

\* ... and the rest of the line follows
LogWriteRest ==
    /\ partial = PART_BYTES
    /\ partial' = 0
    /\ log' = Append(log, LogRecord(written + 1))
    /\ written' = written + 1
    /\ UNCHANGED <<v_rec, v_aux, v_opts, log_exists, v_ship, v_convert, v_cleanup>>

\* The followed file is truncated (a rotation that empties it in place)
LogTruncate ==
    /\ log_exists
    /\ partial = 0
    /\ log # <<>>
    /\ log' = <<>>
    /\ UNCHANGED <<v_rec, v_aux, v_opts, log_exists, partial, written, v_ship, v_convert, v_cleanup>>

\* The tail shipper following a file that is written in pieces and truncated
NextFollow == NextTail \/ LogWritePart \/ LogWriteRest \/ LogTruncate

SpecFollow == InitTail /\ [][NextFollow]_vars

----------------------------------------------------------------------------
(* Cleanup: lib/codex-log-cleanup.py *)

SECONDS_PER_DAY == 86400

\* time.time() when the cleanup runs
Now == 200 * SECONDS_PER_DAY

\* What can lie under the base directory: session files of several ages (one of
\* them modified exactly two days ago), and files that are not logs
OldJsonl    == [path |-> "a/session-a.jsonl", dir |-> "a", mtime |-> Now - 100 * SECONDS_PER_DAY]
RecentRaw   == [path |-> "a/session-a.raw.txt", dir |-> "a", mtime |-> Now - SECONDS_PER_DAY]
EdgeMeta    == [path |-> "b/session-b.meta.json", dir |-> "b", mtime |-> Now - 2 * SECONDS_PER_DAY]
OldTtylog   == [path |-> "c/session-c.ttylog", dir |-> "c", mtime |-> Now - 100 * SECONDS_PER_DAY]
OldNotes    == [path |-> "b/notes.txt", dir |-> "b", mtime |-> Now - 100 * SECONDS_PER_DAY]
OldBackup   == [path |-> "d/session-d.jsonl.bak", dir |-> "d", mtime |-> Now - 100 * SECONDS_PER_DAY]
AllFiles == {OldJsonl, RecentRaw, EdgeMeta, OldTtylog, OldNotes, OldBackup}
AllDirs == {"a", "b", "c", "d", "empty"}

\* Values of --days
DaysArgs == {"90", "2", "0", "+2", "-1", "-5", "false", " None ", "INFINITE", "abc", "1.5", ""}

\* str.strip() for blanks
RECURSIVE str_strip(_)
str_strip(s) ==
    IF Len(s) > 0 /\ SubSeq(s, 1, 1) = " " THEN str_strip(SubSeq(s, 2, Len(s)))
    ELSE IF Len(s) > 0 /\ SubSeq(s, Len(s), Len(s)) = " " THEN str_strip(SubSeq(s, 1, Len(s) - 1))
    ELSE s

\* str.lower() for ASCII letters
RECURSIVE str_lower(_)
str_lower(s) ==
    IF Len(s) = 0 THEN s
    ELSE LET i == str_find("ABCDEFGHIJKLMNOPQRSTUVWXYZ", SubSeq(s, 1, 1), 1)
         IN  (IF i = 0 THEN SubSeq(s, 1, 1) ELSE SubSeq("abcdefghijklmnopqrstuvwxyz", i, i))
                 \o str_lower(SubSeq(s, 2, Len(s)))

\* s.endswith(suffix)
str_endswith(s, suffix) ==
    Len(suffix) <= Len(s) /\ SubSeq(s, Len(s) - Len(suffix) + 1, Len(s)) = suffix

\* Value of a string of decimal digits read after acc; -1 when a character is
\* not a digit
RECURSIVE digits_value(_, _)
digits_value(s, acc) ==
    IF Len(s) = 0 THEN acc
    ELSE LET d == str_find("0123456789", SubSeq(s, 1, 1), 1)
         IN  IF d = 0 THEN -1 ELSE digits_value(SubSeq(s, 2, Len(s)), 10 * acc + (d - 1))

\* int(s) for an optional sign followed by decimal digits; anything else raises
\* ValueError
int(s) ==
    LET signed == Len(s) > 0 /\ SubSeq(s, 1, 1) \in {"+", "-"}
        body == IF signed THEN SubSeq(s, 2, Len(s)) ELSE s
        v == IF Len(body) = 0 THEN -1 ELSE digits_value(body, 0)
    IN  IF v < 0 THEN [ok |-> FALSE, value |-> 0]
        ELSE [ok |-> TRUE, value |-> IF signed /\ SubSeq(s, 1, 1) = "-" THEN 0 - v ELSE v]

\* days_raw = args.days.strip().lower()
days_raw == str_lower(str_strip(days_arg))

\* iter_log_files(base): the files whose path ends in a log extension
LogExtensions == {".jsonl", ".raw.txt", ".meta.json", ".ttylog"}
iter_log_files == {f \in tree : \E ext \in LogExtensions : str_endswith(f.path, ext)}

\* The age test had it kept only the files modified after the cutoff
Eligible_Inclusive(f, cutoff) == f.mtime <= cutoff

\* f.stat().st_mtime < cutoff
Eligible(f, cutoff) == f.mtime < cutoff

InitCleanup ==
    /\ RecorderIdle /\ TailIdle /\ ConvertIdle /\ AuxIdle
    /\ include_text = FALSE
    /\ cl_pc = "args"
    /\ days_arg \in DaysArgs
    /\ dry_run \in BOOLEAN
    /\ tree \in {AllFiles, {OldJsonl, OldNotes}, {OldNotes, OldBackup}}
    /\ dirs = AllDirs
    /\ to_delete = {}
    /\ unlinked = {}
    /\ removed_dirs = {}
    /\ cl_exit = 0

\* Interpret days: retention forever, an invalid value (exit status 2), a
\* negative number of days, or a retention window
CleanupArgs ==
    /\ cl_pc = "args"
    /\ IF days_raw \in {"-1", "false", "infinite", "none"}
       THEN cl_pc' = "done" /\ cl_exit' = 0
       ELSE IF ~int(days_raw).ok
       THEN cl_pc' = "done" /\ cl_exit' = 2
       ELSE IF int(days_raw).value < 0
       THEN cl_pc' = "done" /\ cl_exit' = 0
       ELSE cl_pc' = "scan" /\ cl_exit' = 0
    /\ UNCHANGED <<v_rec, v_aux, v_opts, v_tail, v_convert, days_arg, dry_run, tree, dirs, to_delete,
                   unlinked, removed_dirs>>

\* The log files older than the cutoff are selected; nothing more happens when
\* there is no log file, or with --dry-run
CleanupScan ==
    /\ cl_pc = "scan"
    /\ LET cutoff == Now - int(days_raw).value * SECONDS_PER_DAY
           selected == {f \in iter_log_files : Eligible(f, cutoff)}
       IN  IF iter_log_files = {} \/ dry_run
           THEN cl_pc' = "done" /\ to_delete' = {}
           ELSE cl_pc' = "unlink" /\ to_delete' = selected
    /\ UNCHANGED <<v_rec, v_aux, v_opts, v_tail, v_convert, days_arg, dry_run, tree, dirs, unlinked,
                   removed_dirs, cl_exit>>

\* p.unlink() for the next selected file; a failure is reported and the loop
\* goes on
CleanupUnlink ==
    /\ cl_pc = "unlink"
    /\ to_delete # {}
    /\ \E p \in to_delete :
          /\ to_delete' = to_delete \ {p}
          /\ \/ tree' = tree \ {p} /\ unlinked' = unlinked \cup {p}
             \/ UNCHANGED <<tree, unlinked>>
    /\ UNCHANGED <<v_rec, v_aux, v_opts, v_tail, v_convert, cl_pc, days_arg, dry_run, dirs,
                   removed_dirs, cl_exit>>

\* remove_empty_dirs(base): every directory found empty is removed, unless its
\* rmdir fails
CleanupRmdirs ==
    /\ cl_pc = "unlink"
    /\ to_delete = {}
    /\ \E gone \in SUBSET {d \in dirs : \A f \in tree : f.dir # d} :
          /\ dirs' = dirs \ gone
          /\ removed_dirs' = removed_dirs \cup gone
    /\ cl_pc' = "done"
    /\ UNCHANGED <<v_rec, v_aux, v_opts, v_tail, v_convert, days_arg, dry_run, tree, to_delete,
                   unlinked, cl_exit>>

NextCleanup == CleanupArgs \/ CleanupScan \/ CleanupUnlink \/ CleanupRmdirs

SpecCleanup == InitCleanup /\ [][NextCleanup]_vars

----------------------------------------------------------------------------
(* lib/codex-generic-shipper.py: main ships one JSONL file in batches       *)

MaxEvents == 3

\* --batch-size
GenericBatchSizes == {1, 2}

\* What a call of post_json can do: return True (a 2xx answer), return False
\* (urllib.error.URLError, which it catches), or raise: request.Request is built
\* outside the try and raises ValueError for an endpoint without a scheme, and
\* urlopen lets through what is no URLError (the server closing the connection
\* without an answer, a timeout while the answer is read).
PostOutcomes == {"ok", "url_error", "raised"}

\* post_json(url, payload)
post_json(o) ==
    IF o = "ok" THEN <<"returned", TRUE>>
    ELSE IF o = "url_error" THEN <<"returned", FALSE>>
    ELSE <<"raised", FALSE>>

InitGeneric ==
    /\ RecorderIdle /\ TailIdle /\ ConvertIdle /\ CleanupIdle /\ GatewayIdle /\ ConfigIdle
    /\ include_text = FALSE
    /\ gs_pc = "start"
    /\ gs_exists \in BOOLEAN
    /\ gs_records \in 0..MaxEvents
    /\ gs_batch_size \in GenericBatchSizes
    /\ gs_dry_run \in BOOLEAN
    /\ gs_i = 0
    /\ gs_sent = 0
    /\ gs_failed = 0
    /\ gs_posts = <<>>
    /\ gs_exit = 0

\* The file is looked for and parsed, the records become events
GenericStart ==
    /\ gs_pc = "start"
    /\ IF gs_exists THEN gs_pc' = "loop" /\ UNCHANGED gs_exit
       ELSE gs_pc' = "done" /\ gs_exit' = 1
    /\ UNCHANGED <<v_rec, v_opts, v_tail, v_convert, v_cleanup, v_gateway, v_config, gs_exists,
                   gs_records, gs_batch_size, gs_dry_run, gs_i, gs_sent, gs_failed, gs_posts>>

\* One turn of the loop over range(0, len(events), args.batch_size)
GenericBatch ==
    /\ gs_pc = "loop"
    /\ gs_i < gs_records
    /\ LET last  == IF gs_i + gs_batch_size < gs_records THEN gs_i + gs_batch_size
                    ELSE gs_records
           count == last - gs_i
       IN  IF gs_dry_run
           THEN /\ gs_i' = gs_i + gs_batch_size
                /\ UNCHANGED <<gs_pc, gs_sent, gs_failed, gs_posts, gs_exit>>
           ELSE \E o \in PostOutcomes :
                   /\ gs_posts' = Append(gs_posts, [first |-> gs_i + 1, last |-> last, outcome |-> o])
                   /\ IF post_json(o)[1] = "raised"
                      THEN /\ gs_pc' = "done" /\ gs_exit' = 1
                           /\ UNCHANGED <<gs_i, gs_sent, gs_failed>>
                      ELSE /\ gs_i' = gs_i + gs_batch_size
                           /\ gs_sent' = IF post_json(o)[2] THEN gs_sent + count ELSE gs_sent
                           /\ gs_failed' = IF post_json(o)[2] THEN gs_failed ELSE gs_failed + count
                           /\ UNCHANGED <<gs_pc, gs_exit>>
    /\ UNCHANGED <<v_rec, v_opts, v_tail, v_convert, v_cleanup, v_gateway, v_config, gs_exists,
                   gs_records, gs_batch_size, gs_dry_run>>

\* sys.exit(0 if failed == 0 else 1)
GenericExit ==
    /\ gs_pc = "loop"
    /\ gs_i >= gs_records
    /\ gs_pc' = "done"
    /\ gs_exit' = IF gs_failed = 0 THEN 0 ELSE 1
    /\ UNCHANGED <<v_rec, v_opts, v_tail, v_convert, v_cleanup, v_gateway, v_config, gs_exists,
                   gs_records, gs_batch_size, gs_dry_run, gs_i, gs_sent, gs_failed, gs_posts>>

NextGeneric == GenericStart \/ GenericBatch \/ GenericExit

SpecGeneric == InitGeneric /\ [][NextGeneric]_vars

----------------------------------------------------------------------------
(* lib/codex-gateway.py: IngestHandler.do_POST                              *)

MaxRequests == 2

\* _config["gateway"]["endpoint"]
ENDPOINT == "/ingest"

Paths == {ENDPOINT, "/other"}

\* The Content-Length header: the length of the body, no integer, or missing
ContentLengths == {"exact", "malformed", "absent"}

\* JSON values an "events" member can have; items is what iterating over the
\* value yields (elements, characters, keys), iterable is FALSE for null and
\* for numbers
JsonValue(kind, iterable, items) == [kind |-> kind, iterable |-> iterable, items |-> items]
EventsValues ==
    { JsonValue("array", TRUE, <<>>), JsonValue("array", TRUE, <<"e1">>),
      JsonValue("array", TRUE, <<"e1", "e2">>), JsonValue("string", TRUE, <<"a", "b">>),
      JsonValue("null", FALSE, <<>>), JsonValue("number", FALSE, <<>>) }

\* Request bodies: text that is no JSON, JSON that is no object, and objects
\* without and with an "events" member
Body(kind, events) == [kind |-> kind, events |-> events]
Bodies ==
    { Body("invalid", <<>>), Body("array", <<>>), Body("number", <<>>), Body("object", <<>>) }
    \cup { Body("object", <<v>>) : v \in EventsValues }

Requests == [path : Paths, content_length : ContentLengths, body : Bodies]

\* body = self.rfile.read(length) if length else b''
body_read(req) == IF req.content_length = "exact" THEN req.body ELSE Body("invalid", <<>>)

\* payload.get("events", [])
events_of(body) == IF body.events = <<>> THEN JsonValue("array", TRUE, <<>>) ELSE body.events[1]

\* do_POST: the response sent ("none" when the handler raised before sending
\* one) and the lines appended to the file
do_POST(req) ==
    IF req.path # ENDPOINT THEN [response |-> "404", lines |-> <<>>]
    ELSE IF req.content_length = "malformed" THEN [response |-> "none", lines |-> <<>>]
    ELSE IF body_read(req).kind # "object" THEN [response |-> "400", lines |-> <<>>]
    ELSE IF ~events_of(body_read(req)).iterable THEN [response |-> "none", lines |-> <<>>]
    ELSE [response |-> "200", lines |-> events_of(body_read(req)).items]

NoRequest == [path |-> "", content_length |-> "absent", body |-> Body("invalid", <<>>)]

InitGateway ==
    /\ RecorderIdle /\ TailIdle /\ ConvertIdle /\ CleanupIdle /\ GenericIdle /\ ConfigIdle
    /\ include_text = FALSE
    /\ gw_request = NoRequest
    /\ gw_response = "none"
    /\ gw_file = <<>>
    /\ gw_served = 0

\* One POST request is handled
GatewayPost ==
    /\ gw_served < MaxRequests
    /\ \E req \in Requests :
          /\ gw_request' = req
          /\ gw_response' = do_POST(req).response
          /\ gw_file' = gw_file \o do_POST(req).lines
    /\ gw_served' = gw_served + 1
    /\ UNCHANGED <<v_rec, v_opts, v_tail, v_convert, v_cleanup, v_generic, v_config>>

NextGateway == GatewayPost

SpecGateway == InitGateway /\ [][NextGateway]_vars

----------------------------------------------------------------------------
(* lib/cx_config.py: load_config                                            *)

\* Python values of the configuration: strings, None and dicts (a dict is a
\* function from its keys to values)
Str(v) == <<"str", v>>
PyNone == <<"none">>
Dict(f) == <<"dict", f>>
IsDict(v) == v[1] = "dict"
EmptyDict == [k \in {} |-> PyNone]

\* get_default_config(), the settings looked at
DefaultConfig ==
    [loki       |-> Dict([url      |-> Str("http://localhost:3100"),
                          job_name |-> Str("codex-sessions"),
                          labels   |-> Dict([component |-> Str("cx-wrapper")])]),
     federation |-> Dict([node_id |-> Str("codex-host")]),
     gateway    |-> Dict([port |-> Str("8080")])]

\* deep_merge(base, overlay)
RECURSIVE deep_merge(_, _)
deep_merge(base, overlay) ==
    [key \in DOMAIN base \cup DOMAIN overlay |->
        IF key \notin DOMAIN overlay THEN base[key]
        ELSE IF key \in DOMAIN base /\ IsDict(base[key]) /\ IsDict(overlay[key])
        THEN Dict(deep_merge(base[key][2], overlay[key][2]))
        ELSE overlay[key]]

\* dict.get(key, default)
dict_get(d, key, default) == IF key \in DOMAIN d THEN d[key] ELSE default

\* The "codex" member of ~/.memchain/loki.json, for the files looked at
LegacyFiles ==
    { EmptyDict,
      [loki_url |-> Str("http://legacy:3100")],
      [loki_url |-> Str("http://legacy:3100"), job_name |-> Str("legacy-job"),
       federation_node |-> Str("legacy-node")],
      [federation_node |-> Str("legacy-node"),
       labels |-> Dict([layer |-> Str("legacy")])] }

\* load_memchain_config(): <<>> for None (no file, or an empty "codex" member)
load_memchain_config(file) ==
    IF file = <<>> \/ file[1] = EmptyDict THEN <<>>
    ELSE LET codex_config == file[1]
         IN  << [loki |-> Dict([url      |-> dict_get(codex_config, "loki_url", PyNone),
                                job_name |-> dict_get(codex_config, "job_name", PyNone),
                                labels   |-> dict_get(codex_config, "labels", Dict(EmptyDict))]),
                 federation |-> Dict([node_id |->
                                         dict_get(codex_config, "federation_node", PyNone)])] >>

\* The content of ~/.config/nabi/cx/config.toml, for the files looked at
TomlFiles ==
    { EmptyDict,
      [loki |-> Dict([url |-> Str("http://toml:3100")])],
      [loki |-> Dict([job_name |-> Str("toml-job")]),
       federation |-> Dict([node_id |-> Str("toml-node")])],
      [gateway |-> Dict([port |-> Str("9090")])] }

\* load_toml_config(): <<>> for None
load_toml_config(file) == file

\* Environment: <<>> for a variable that is not set
EnvValues(v) == {<<>>, <<"">>, <<v>>}
Environments ==
    [LOKI_URL : EnvValues("http://env:3100"), FEDERATION_NODE_ID : EnvValues("env-node")]

\* os.environ.get(name) is truthy
env_set(env, name) == env[name] # <<>> /\ env[name][1] # ""

\* apply_env_overrides(config)
apply_env_overrides(config, env) ==
    LET with_url == IF env_set(env, "LOKI_URL")
                    THEN [config EXCEPT !.loki[2].url = Str(env.LOKI_URL[1])]
                    ELSE config
    IN  IF env_set(env, "FEDERATION_NODE_ID")
        THEN [with_url EXCEPT !.federation[2].node_id = Str(env.FEDERATION_NODE_ID[1])]
        ELSE with_url

\* load_config()
load_config(env, toml, legacy) ==
    LET memchain    == load_memchain_config(legacy)
        layer3      == IF memchain # <<>> THEN deep_merge(DefaultConfig, memchain[1])
                       ELSE DefaultConfig
        toml_config == load_toml_config(toml)
        layer2      == IF toml_config # <<>> /\ toml_config[1] # EmptyDict
                       THEN deep_merge(layer3, toml_config[1])
                       ELSE layer3
    IN  apply_env_overrides(layer2, env)

InitConfig ==
    /\ RecorderIdle /\ TailIdle /\ ConvertIdle /\ CleanupIdle /\ GenericIdle /\ GatewayIdle
    /\ include_text = FALSE
    /\ cf_env \in Environments
    /\ cf_toml \in {<<>>} \cup {<<f>> : f \in TomlFiles}
    /\ cf_legacy \in {<<>>} \cup {<<f>> : f \in LegacyFiles}
    /\ cf_out = <<>>

\* config = load_config()
LoadConfig ==
    /\ cf_out = <<>>
    /\ cf_out' = <<load_config(cf_env, cf_toml, cf_legacy)>>
    /\ UNCHANGED <<v_rec, v_opts, v_tail, v_convert, v_cleanup, v_generic, v_gateway,
                   cf_env, cf_toml, cf_legacy>>

NextConfig == LoadConfig

SpecConfig == InitConfig /\ [][NextConfig]_vars


----------------------------------------------------------------------------
(* Reading the transcript *)

IsStarted(line) == line.event = "session_started"
IsEnded(line) == line.event = "session_ended"
HasStarted == \E i \in 1..Len(jsonl) : IsStarted(jsonl[i])
HasEnded == \E i \in 1..Len(jsonl) : IsEnded(jsonl[i])
EndRecord == jsonl[CHOOSE i \in 1..Len(jsonl) : IsEnded(jsonl[i])]

\* The JSONL of a completed session: session_ended has just been appended as the
\* last record. Nothing after this point writes the file, so every file a
\* session leaves behind with a closing record appears here.
Completed == pc = "fin_assign" /\ Len(jsonl) >= 2 /\ IsEnded(jsonl[Len(jsonl)])

ChildExitedNormally == child \in {"exited", "reaped"} /\ WIFEXITED(wstatus)

RECURSIVE SumBytes(_, _)
SumBytes(f, dir) ==
    IF f = <<>> THEN 0
    ELSE (IF Head(f).direction = dir THEN Head(f).bytes ELSE 0) + SumBytes(Tail(f), dir)

\* Record parsed from a line and serialized again, with its prev_hash field removed
RECURSIVE Without(_, _)
Without(keys, key) ==
    IF keys = <<>> THEN <<>>
    ELSE (IF Head(keys) = key THEN <<>> ELSE <<Head(keys)>>) \o Without(Tail(keys), key)
StripPrevHash(line) == [line EXCEPT !.keys = Without(@, "prev_hash"), !.prev_hash = None]

\* Forward verification of a JSONL file f: the first record has no prev_hash and
\* every later record's prev_hash is the digest of the line before it.
LinkOk(f, i) ==
    IF i = 1
    THEN ~Has(f[1], "prev_hash")
    ELSE Has(f[i], "prev_hash") /\ f[i].prev_hash = compute_sha256(f[i - 1])
VerifyChain(f) == \A i \in 1..Len(f) : LinkOk(f, i)
FailsAtOrAfter(f, pos) == \E i \in pos..Len(f) : ~LinkOk(f, i)

\* Record i+1 repeats the prev_hash of record i: the mark left in the file by an
\* append whose digest never reached main's prev_hash
RepeatsPrevHash(f, i) ==
    /\ Has(f[i], "prev_hash") /\ Has(f[i + 1], "prev_hash")
    /\ f[i + 1].prev_hash = f[i].prev_hash
Stale(f) == \E i \in 2..(Len(f) - 1) : RepeatsPrevHash(f, i)

\* Tampering with a file
DeleteAt(f, k) == SubSeq(f, 1, k - 1) \o SubSeq(f, k + 1, Len(f))
Truncate(f, k) == SubSeq(f, 1, k - 1)
StringKeys == {"ts", "session_id", "event", "cwd", "direction", "duration_estimate",
               "error", "error_type", "codex_session_uuid"}
IntKeys == {"bytes", "total_bytes_in", "total_bytes_out", "exit_code"}
PayloadEdits(line) ==
    {[line EXCEPT ![k] = "tampered"] : k \in {x \in StringKeys : Has(line, x)}}
    \cup {[line EXCEPT ![k] = @ + 1] : k \in {x \in IntKeys : Has(line, x)}}
    \cup (IF Has(line, "text") THEN {[line EXCEPT !.text = Append(@, 0)]} ELSE {})
    \cup (IF Has(line, "cmd") THEN {[line EXCEPT !.cmd = <<"tampered">>]} ELSE {})
PrevHashEdits(line) ==
    IF Has(line, "prev_hash")
    THEN {[line EXCEPT !.prev_hash = compute_sha256(EmptyObj)], StripPrevHash(line)}
    ELSE {}
Edits(line) == PayloadEdits(line) \cup PrevHashEdits(line)
EditAt(f, k, line) == [f EXCEPT ![k] = line]

----------------------------------------------------------------------------
(* Claims *)

\* C1 (stated for the runs in which no signal is delivered and session_ended is
\* logged): when the wrapped program was found and has exited normally with
\* status N, a recorder that has terminated has exit status N.
C1_ExitStatusMirrored ==
    (pc = "done" /\ found = "yes" /\ signals = 0 /\ HasEnded /\ ChildExitedNormally)
        => exit_status = WEXITSTATUS(wstatus)

\* C2: when the PATH check does not find the executable, the recorder has exited
\* with status 127, no session file exists, nothing was written to a transcript
\* and no child was forked; and an executable that is not on PATH is never run,
\* nor is any session file created for it, wherever the recorder stands.
C2_NotFoundExits127 ==
    /\ found = "no" =>
          /\ pc = "done" /\ exit_status = EXIT_NOT_FOUND
          /\ ~codex_on_path
    /\ ~codex_on_path =>
          /\ files = {} /\ jsonl = <<>> /\ raw = <<>> /\ meta = NoMeta
          /\ child = "none" /\ ~pid_bound /\ master = "none"
          /\ found # "yes"
C2_Witness == found = "no" /\ pc = "done" /\ exit_status = EXIT_NOT_FOUND /\ files = {}

\* C3 (tee_v2, stated for the runs in which no signal is delivered): when the
\* child has exited normally with status N, the session_ended record carries
\* exit_code = N.
C3_EndedCarriesChildStatus ==
    (variant = "tee_v2" /\ HasEnded /\ signals = 0 /\ ChildExitedNormally)
        => EndRecord.exit_code = WEXITSTATUS(wstatus)

\* C4: between relay-loop iterations and after finalization, the raw transcript
\* is as long as bytes_in + bytes_out, the bytes fields of the io records of each
\* direction sum to that direction's counter, and session_ended carries the
\* counters.
C4_ByteAccounting ==
    (counters_bound /\ (pc = "select" \/ HasEnded)) =>
        /\ Len(raw) = bytes_in + bytes_out
        /\ SumBytes(jsonl, "in") = bytes_in
        /\ SumBytes(jsonl, "out") = bytes_out
        /\ HasEnded => /\ EndRecord.total_bytes_in = bytes_in
                       /\ EndRecord.total_bytes_out = bytes_out

\* C5 as claimed: in the JSONL of a completed session, the digest of record i
\* serialized without its prev_hash field is the prev_hash of record i+1.
C5_ChainOverStrippedRecords ==
    Completed =>
        \A i \in 1..(Len(jsonl) - 1) :
            jsonl[i + 1].prev_hash = compute_sha256(StripPrevHash(jsonl[i]))

\* C5 as amended: in the JSONL of a completed session, every record after the
\* first has a prev_hash field, and the prev_hash of record i+1 is the digest of
\* the line of record i as it was written, prev_hash field included; the one
\* exception is a record appended after an append whose digest never reached
\* main (a signal arrived first): it repeats the prev_hash of record i.
C5_ChainOverWrittenLines ==
    Completed =>
        \A i \in 1..(Len(jsonl) - 1) :
            /\ Has(jsonl[i + 1], "prev_hash")
            /\ \/ jsonl[i + 1].prev_hash = compute_sha256(jsonl[i])
               \/ i > 1 /\ RepeatsPrevHash(jsonl, i)
C5_Witness ==
    /\ Completed /\ Len(jsonl) >= 4
    /\ \E i \in 2..(Len(jsonl) - 1) :
          /\ jsonl[i + 1].prev_hash = compute_sha256(jsonl[i])
          /\ jsonl[i + 1].prev_hash # compute_sha256(StripPrevHash(jsonl[i]))

\* C6: at every moment the first record of the JSONL has no prev_hash field and
\* every later record carries the digest of the line written immediately before
\* it, and the value append_jsonl is returning is the digest of the line it just
\* wrote.
C6_ChainThreaded ==
    /\ VerifyChain(jsonl)
    /\ line_hash # None => line_hash = compute_sha256(jsonl[Len(jsonl)])

\* C7 as claimed: from the JSONL of a completed session, deleting any record or
\* any suffix of records, or editing any field of any record, yields a file
\* whose forward verification fails at or after the tampered position.
C7_EveryTamperingDetected ==
    Completed =>
        /\ \A k \in 1..Len(jsonl) : ~VerifyChain(DeleteAt(jsonl, k))
        /\ \A k \in 1..Len(jsonl) : ~VerifyChain(Truncate(jsonl, k))
        /\ \A k \in 1..Len(jsonl) : \A e \in Edits(jsonl[k]) :
              FailsAtOrAfter(EditAt(jsonl, k, e), k)

\* C7 as amended: in the JSONL of a completed session, unless some record
\* repeats the prev_hash of the record before it (then the untampered file
\* already fails verification), the file verifies, and deleting the first or a
\* middle record, editing any field of a record other than the last, or editing
\* the prev_hash of any record fails verification at or after the tampered
\* position; deleting the last record or a longer suffix, or editing another
\* field of the last record, leaves a file that verifies.
C7_TamperEvidence ==
    Completed =>
        IF Stale(jsonl)
        THEN ~VerifyChain(jsonl)
        ELSE /\ VerifyChain(jsonl)
             /\ \A k \in 1..(Len(jsonl) - 1) :
                   /\ FailsAtOrAfter(DeleteAt(jsonl, k), k)
                   /\ \A e \in Edits(jsonl[k]) : FailsAtOrAfter(EditAt(jsonl, k, e), k)
             /\ \A k \in 2..Len(jsonl) : \A e \in PrevHashEdits(jsonl[k]) :
                   FailsAtOrAfter(EditAt(jsonl, k, e), k)
             /\ \A k \in 1..Len(jsonl) : VerifyChain(Truncate(jsonl, k))
             /\ \A e \in PayloadEdits(jsonl[Len(jsonl)]) :
                   VerifyChain(EditAt(jsonl, Len(jsonl), e))
C7_Witness == Completed /\ Len(jsonl) >= 4 /\ ~Stale(jsonl)

\* C8: a recorder that has exited after appending session_started has appended
\* session_ended.
C8_FinalizedOnExit == (pc = "done" /\ HasStarted) => HasEnded

\* C9: in tee_v2, a SIGINT delivered while the relay loop runs and the child is
\* alive writes the interrupt byte to the pty master and leaves the loop running.
\* (SIGINT and SIGTERM run the same handler; Signal is the delivery of either.)
C9_InterruptForwarded ==
    [][(variant = "tee_v2" /\ signals' = signals + 1 /\ pc \in LoopPcs /\ child = "running")
          => (pty_in' = Append(pty_in, ETX) /\ pc' \in LoopPcs)]_vars

\* C10: in tee_v2, when a read on stdin returns end-of-file while the child is
\* running, the relay loop goes on.
C10_EofKeepsRelaying ==
    [][(variant = "tee_v2" /\ pc = "in_read" /\ ~stdin_eof /\ stdin_eof' /\ child = "running")
          => pc' \in LoopPcs]_vars

\* C11: in tee_v2 the recorder is never blocked in the waitpid of the finally
\* block (the relay loop has ended, so the pty master is neither read nor
\* written any more, yet it is still open, so the child sees no hang-up) while
\* the child is alive: from there only the child ending by itself or a further
\* signal lets the finalization go on.
C11_NeverWaitsOnLiveChild ==
    ~(variant = "tee_v2" /\ pc = "fin_wait" /\ pid_bound /\ child = "running"
        /\ master = "open" /\ ~ENABLED FinWait)

----------------------------------------------------------------------------
(* Chunks read, chunks recorded, bytes forwarded *)

IsIo(line) == line.direction # ""
IoRecords(f) == SelectSeq(f, IsIo)
DirectionOf(fd) == IF fd = "stdin" THEN "in" ELSE "out"

\* Concatenation of the chunks read, in the order they were read
RECURSIVE ConcatAll(_)
ConcatAll(rs) == IF rs = <<>> THEN <<>> ELSE Head(rs).data \o ConcatAll(Tail(rs))

\* Concatenation of the chunks read from descriptor fd
RECURSIVE ConcatOf(_, _)
ConcatOf(rs, fd) ==
    IF rs = <<>> THEN <<>>
    ELSE (IF Head(rs).fd = fd THEN Head(rs).data ELSE <<>>) \o ConcatOf(Tail(rs), fd)

\* Positions at which no chunk is in flight: the loop is about to wait or to
\* read, or it has ended
BetweenChunks == {"select", "in_read", "out_read"} \cup FinPcs \cup {"done"}

\* Every chunk read has its io record, in order, with the chunk's length
AllRecorded ==
    /\ Len(IoRecords(jsonl)) = Len(reads)
    /\ \A i \in 1..Len(reads) :
          /\ IoRecords(jsonl)[i].direction = DirectionOf(reads[i].fd)
          /\ IoRecords(jsonl)[i].bytes = Len(reads[i].data)

\* C12 (stated for the runs in which no signal is delivered): whenever no chunk
\* is in flight, the raw transcript is the concatenation of the chunks read and
\* every chunk read has exactly one io record carrying its length.
C12_EveryChunkRecorded ==
    (signals = 0 /\ pc \in BetweenChunks) => (raw = ConcatAll(reads) /\ AllRecorded)

\* C13 (stated for the runs in which no signal is delivered, at the points where
\* every chunk read has been recorded): the bytes written to the pty master are
\* the chunks read from stdin, and the bytes written to stdout are the chunks
\* read from the pty master.
C13_NoByteDropped ==
    (signals = 0 /\ pc \in BetweenChunks /\ AllRecorded) =>
        /\ pty_in = ConcatOf(reads, "stdin")
        /\ stdout = ConcatOf(reads, "master")

\* C14: in tee_v2, when stdin is a terminal its attributes were captured while
\* the terminal was not yet raw, and a recorder that has exited has left the
\* terminal with the captured attributes; when stdin is not a terminal its
\* attributes are neither captured nor changed.
C14_TerminalRestored ==
    variant = "tee_v2" =>
        /\ tty = "raw" => (stdin_isatty /\ old_tty_settings = "cooked")
        /\ (pc = "done" /\ old_tty_settings # "none") => tty = old_tty_settings
        /\ ~stdin_isatty => (tty = "cooked" /\ old_tty_settings = "none")

\* C15 (for the forwarding write on the non-blocking pty master of tee_v2, which
\* with the child alive can only fail as would-block): when that write raises,
\* the relay loop re-enters the readiness wait.
C15_WouldBlockSwallowed ==
    [][(/\ variant = "tee_v2" /\ pc = "in_write" /\ pc' # "in_write"
        /\ child = "running" /\ signals' = signals /\ pty_in' = pty_in)
          => pc' = "select"]_vars

\* The metadata file as write_meta created it
InitialMeta ==
    LET m == write_meta(ensure_log_paths(SESSION_ID).meta)
    IN  IF codex_uuid # "" THEN [m EXCEPT !.codex_session_uuid = codex_uuid, !.is_resume = TRUE]
        ELSE m

\* C16: once a read on the pty master has failed with EIO the relay loop has
\* ended (the recorder is in the finally block or has exited, it never polls
\* again), and, no signal being delivered, a recorder that has exited has reaped
\* the child, left the terminal with the captured attributes, run the metadata
\* update (which rewrites the file unless the file system fails it) and
\* appended session_ended as the last record, unless that append itself raised.
C16_DeviceGoneFinalizes ==
    master_eio =>
        /\ pc \in FinPcs \cup {"done"}
        /\ (signals = 0 /\ pc = "done") =>
              /\ child = "reaped"
              /\ old_tty_settings # "none" => tty = old_tty_settings
              /\ meta.ended \/ meta \in {InitialMeta, TruncatedMeta}
              /\ IF exit_status = 0
                 THEN IsEnded(jsonl[Len(jsonl)])
                 ELSE ~HasEnded /\ ~meta.ended
C16_Witness ==
    /\ master_eio /\ pc = "done" /\ signals = 0 /\ exit_status = 0
    /\ variant = "tee_v2" /\ stdin_isatty /\ meta.ended /\ Len(reads) > 0

\* C17: when pty.fork raises (no signal being delivered), no session file
\* exists and nothing has been written to the JSONL.
C17_ForkFailureLeavesNothing ==
    [][(pc = "fork" /\ pc' # "fork" /\ signals' = signals /\ ~pid_bound')
          => (files' = {} /\ jsonl' = <<>> /\ meta' = NoMeta)]_vars

\* C18: once the final metadata update has been written, the metadata's
\* exit_code, total_bytes_in and total_bytes_out are those of the session_ended
\* record, which is the last record of the JSONL.
C18_MetaMatchesEndRecord ==
    meta.ended =>
        /\ IsEnded(jsonl[Len(jsonl)])
        /\ meta.exit_code = jsonl[Len(jsonl)].exit_code
        /\ meta.total_bytes_in = jsonl[Len(jsonl)].total_bytes_in
        /\ meta.total_bytes_out = jsonl[Len(jsonl)].total_bytes_out
C18_Witness ==
    /\ pc = "done" /\ meta.ended /\ meta.exit_code = 3
    /\ meta.total_bytes_in > 0 /\ meta.total_bytes_out > 0

\* C19: the metadata update is attempted only after session_ended has been
\* appended, and whether it rewrites the file or fails, the finally block goes
\* on with the steps after it, with the same pending exception and without
\* touching the transcript.
C19_MetaFailureCaught ==
    [][(pc = "fin_meta" /\ pc' # "fin_meta" /\ signals' = signals)
          => /\ IsEnded(jsonl[Len(jsonl)])
             /\ pc' = "fin_tail" /\ pending' = pending
             /\ jsonl' = jsonl /\ raw' = raw
             /\ meta' \in {meta, MetaUpdate(meta), TruncatedMeta}]_vars
C19_Witness ==
    /\ pc = "done" /\ exit_status = 0 /\ signals = 0
    /\ IsEnded(jsonl[Len(jsonl)]) /\ ~meta.ended

\* C20: when append_raw or append_jsonl raises while an io chunk is being logged
\* (the position changes, no signal was delivered and neither transcript grew),
\* the relay loop has ended.
C20_AppendFailureEndsLoop ==
    [][(/\ pc \in {"in_raw", "in_jw", "out_raw", "out_jw"} /\ pc' # pc
        /\ signals' = signals /\ raw' = raw /\ jsonl' = jsonl)
          => pc' \notin LoopPcs]_vars

\* C21: whatever signals have been delivered and wherever, every record of the
\* JSONL other than the first carries a prev_hash equal to the digest of the
\* line immediately before it.
C21_InterruptsKeepChain ==
    \A i \in 2..Len(jsonl) :
        Has(jsonl[i], "prev_hash") /\ jsonl[i].prev_hash = compute_sha256(jsonl[i - 1])

\* C22: in tee_v2 the steps that call the sinks (publish_federation_event before
\* the try, publish_federation_event and ship_to_loki at the end of the finally
\* block) leave the raw transcript, the JSONL, the metadata, the counters and
\* the recorded exit code as they were and always go on (to pty.fork, and to
\* the end of main with the exit status the pending exception decides),
\* whatever the sinks come to.
C22_SinksDoNotInfluence ==
    [][(variant = "tee_v2" /\ pc \in {"pre_try", "fin_tail"} /\ pc' # pc /\ signals' = signals)
          => /\ UNCHANGED <<v_files, v_cnt, v_hash, exit_code, v_io, v_child, v_streams>>
             /\ pc' = (IF pc = "pre_try" THEN "fork" ELSE "done")
             /\ pending' = pending
             /\ pc = "fin_tail" => exit_status' = ExitOf(pending)]_vars
C22_Witness ==
    /\ variant = "tee_v2" /\ pc = "done" /\ signals = 0 /\ exit_status = 0
    /\ Len(reads) > 0 /\ AllRecorded /\ IsEnded(jsonl[Len(jsonl)])

\* C23: whenever the metadata file holds a document (from write_meta on, through
\* the resume rewrite and the final update), the session_id of that document
\* is the id between "session-" and the suffix in the names of the three
\* session files, and the session_id of every record of the JSONL.
C23_SessionIdAgrees ==
    ("meta" \in files /\ meta # TruncatedMeta) =>
        /\ \A k \in DOMAIN Suffixes :
              ensure_log_paths(SESSION_ID)[k] = "session-" \o meta.session_id \o Suffixes[k]
        /\ \A i \in 1..Len(jsonl) : jsonl[i].session_id = meta.session_id
C23_Witness ==
    /\ pc = "done" /\ meta.ended /\ meta.is_resume /\ meta.codex_session_uuid = CODEX_UUID
    /\ Len(IoRecords(jsonl)) > 0 /\ IsEnded(jsonl[Len(jsonl)])

\* C24: an exit_code recorded in a session_ended record or by the final
\* metadata update is -1, or else the child has been reaped, exited normally,
\* and the recorded value is its exit status; so a child that was killed by a
\* signal, or whose status could not be obtained, is recorded as -1.
RecordedExitCodes ==
    {jsonl[i].exit_code : i \in {j \in 1..Len(jsonl) : IsEnded(jsonl[j])}}
        \cup (IF meta.ended THEN {meta.exit_code} ELSE {})
C24_AbnormalExitIsMinusOne ==
    \A c \in RecordedExitCodes :
        c = -1 \/ (child = "reaped" /\ WIFEXITED(wstatus) /\ c = WEXITSTATUS(wstatus))

\* C25: the first record of the JSONL is session_started, it is the only one,
\* and it is there before the child is spawned; the JSONL never holds more
\* than one session_ended, and session_ended is the last record; once it has
\* been appended no step changes the JSONL or the raw transcript.
C25_Lifecycle ==
    /\ [](/\ \A i \in 1..Len(jsonl) : IsStarted(jsonl[i]) <=> i = 1
          /\ (child # "none" \/ pid_bound) => HasStarted
          /\ \A i \in 1..Len(jsonl) : IsEnded(jsonl[i]) => i = Len(jsonl))
    /\ [][HasEnded => (jsonl' = jsonl /\ raw' = raw)]_vars
C25_Witness ==
    /\ pc = "done" /\ signals > 0 /\ Len(raw) > 0
    /\ Len(IoRecords(jsonl)) > 0 /\ IsEnded(jsonl[Len(jsonl)])

\* C30: in the relay loop of tee_v2 the recorder is never suspended inside a
\* read or a write it performs after select has returned.
C30_SuspendedOnlyInSelect ==
    variant = "tee_v2" => pc \notin BlockedPcs

\* C28: with include_text false, the event to_generic_event returns (in the
\* generic shipper and in the tail shipper) has no text in its metadata and is
\* the event returned for every record that differs from the converted one in
\* its text only; the same holds of the entry convert_to_loki_entry returns,
\* whatever include_text is.
C28_TextStripped ==
    /\ (cv_by \in {"generic", "tail"} /\ ~include_text) =>
          /\ ~Has(cv_out.metadata, "text") /\ cv_out.metadata.text = <<>>
          /\ \A t \in Texts :
                /\ to_generic_event([cv_record EXCEPT !.text = t], FALSE) = cv_out
                /\ tail_to_generic_event([cv_record EXCEPT !.text = t], FALSE) = cv_out
    /\ cv_by = "loki" =>
          /\ ~Has(cv_out.values[1][2], "text") /\ cv_out.values[1][2].text = <<>>
          /\ \A t \in Texts :
                convert_to_loki_entry([cv_record EXCEPT !.text = t], LokiConfig) = cv_out
C28_Witness ==
    /\ cv_by = "generic" /\ ~include_text
    /\ cv_record.direction = "out" /\ cv_record.text = <<104, REPLACEMENT_CHAR>>
    /\ cv_out.kind = "out" /\ cv_out.metadata.bytes = 2

\* C26: while the tail shipper polls, every record tail_file has returned is in
\* a POST that succeeded, or is still to be sent: its event waits in the batch,
\* or it lies after the offset and the next poll reads it again.
Delivered(ts) == \E e \in posted : e.ts = ts
Waiting(ts) == \E j \in (sent + 1)..Len(batch) : batch[j].ts = ts
LineOf(ts) == CHOOSE j \in 1..Len(log) : log[j].ts = ts
C26_ReadRecordsGetDelivered ==
    (sh_pc \in TailLoopPcs /\ state.known) =>
        \A ts \in tail_read : Delivered(ts) \/ Waiting(ts) \/ LineStart(LineOf(ts)) >= state.offset

\* C27: when the shipper has been started with an entry for the file in
\* STATE_FILE, its first call of tail_file returns exactly the records after
\* the persisted offset, in order: none before it, and none after it missing.
C27_ResumesAtPersistedOffset ==
    [][(sh_pc = "tail" /\ sh_pc' \in {"post", "save"} /\ fresh /\ state_file.known)
          => /\ LINE_BYTES * Len(batch') = Size - state_file.offset
             /\ \A j \in 1..Len(batch') :
                   LineStart(LineOf(batch'[j].ts)) = state_file.offset + LineStart(j)
             /\ state'.offset = Size]_vars
C27_Witness ==
    /\ runs = 2 /\ sh_pc = "post" /\ sent = 0 /\ ~fresh
    /\ state_file = [known |-> TRUE, offset |-> LINE_BYTES]
    /\ Len(batch) = 2 /\ batch[1].ts = log[2].ts /\ batch[2].ts = log[3].ts

\* C29: a file the cleanup has removed was given a retention of N >= 0 days, was
\* last modified before now - N * 86400, has a name ending in .jsonl, .raw.txt,
\* .meta.json or .ttylog, and the run was not a dry run; with --dry-run, or
\* with --days -1, false, infinite, none or a negative integer, no file and no
\* directory is removed; with a --days that is no integer nothing is removed
\* and the exit status is 2.
RetentionDays == ("90" :> 90) @@ ("2" :> 2) @@ ("0" :> 0) @@ ("+2" :> 2)
LogNames == {"a/session-a.jsonl", "a/session-a.raw.txt", "b/session-b.meta.json",
             "c/session-c.ttylog"}
C29_CleanupSafety ==
    /\ \A f \in unlinked :
          /\ days_arg \in DOMAIN RetentionDays
          /\ f.mtime < Now - RetentionDays[days_arg] * 86400
          /\ f.path \in LogNames
          /\ ~dry_run
    /\ (dry_run \/ days_arg \in {"-1", "false", "infinite", "none", "-5"}) =>
          (unlinked = {} /\ removed_dirs = {} /\ tree \in {AllFiles, {OldJsonl, OldNotes},
                                                           {OldNotes, OldBackup}}
           /\ dirs = AllDirs)
    /\ days_arg \in {"abc", "1.5", ""} =>
          (unlinked = {} /\ removed_dirs = {} /\ (cl_pc = "done" => cl_exit = 2))
C29_Witness ==
    /\ cl_pc = "done" /\ days_arg = "2" /\ ~dry_run
    /\ unlinked = {OldJsonl, OldTtylog} /\ EdgeMeta \in tree /\ RecentRaw \in tree
    /\ removed_dirs = {"c", "empty"}

\* C31: a window-size change delivered to tee_v2 at any position of main changes
\* nothing but the size of the pty master: the transcript files, prev_hash, the
\* byte counters, the position of main and every other variable keep their
\* values (so the handler raised nothing); the size the master gets is the
\* terminal's when stdin is a terminal and is unchanged when it is not; and
\* nothing at all changes while the pty master has not been allocated.
C31_WinchOnlyCopiesSize ==
    [][term_size' # term_size =>
          /\ UNCHANGED <<v_tools, variant, codex_on_path, stdin_isatty, args, pc, pending,
                         exit_status, found, v_child, pid_bound, master, tty, old_tty_settings,
                         stdin_nonblock, v_loc, v_io, v_cnt, v_hash, exit_code, v_files,
                         v_streams, signals>>
          /\ pty_size' = IF master = "none" \/ ~stdin_isatty THEN pty_size ELSE term_size']_vars
C31_Witness ==
    /\ pc \in Serving /\ stdin_isatty /\ Len(jsonl) >= 2
    /\ term_size # INITIAL_SIZE /\ pty_size = term_size

\* C32: while a recorder appends lines to a file the tail shipper follows from
\* its beginning, and the file is never truncated, every complete line the
\* shipper's offset has moved past was returned by tail_file as a record: no
\* poll that saw only the first bytes of a line has moved the offset into it.
C32_NoRecordLostToPartialLine ==
    (sh_pc \in TailLoopPcs /\ state.known /\ from_beginning /\ written = Len(log)) =>
        \A j \in 1..Len(log) : LineEnd(j) <= state.offset => log[j].ts \in tail_read

\* C33: in default mode, when a poll of the running shipper discovers a file it
\* has no entry for, it starts following it at an offset no record of the file
\* lies before, so the records written before that poll are shipped too.
C33_NewFileFollowedFromStart ==
    [][(sh_pc = "rescan" /\ sh_pc' = "tail" /\ ~from_beginning /\ ~state.known /\ state'.known)
          => \A j \in 1..Len(log) : LineStart(j) >= state'.offset]_vars

\* C34: a poll that finds the file smaller than the stored offset resets the
\* offset to 0, and the tail step of a poll whose offset is 0 ships every
\* complete line the file then holds, in order; in every other step of the
\* running shipper the offset does not decrease; and after the rescan and after
\* the tail step of a poll the offset is not beyond the sizes that poll has seen
\* (st_size at the rescan, the end of the file tail_file read to).
Max(a, b) == IF a >= b THEN a ELSE b
PollStep == sh_pc \in TailLoopPcs /\ sh_pc' \in TailLoopPcs /\ state.known
Shrunk == sh_pc = "rescan" /\ Size < state.offset
C34_TruncationResetsOffset ==
    [][/\ (PollStep /\ sh_pc' # sh_pc /\ Shrunk) => (state'.offset = 0 /\ sh_pc' = "tail")
       /\ (PollStep /\ sh_pc = "tail" /\ sh_pc' # sh_pc /\ state.offset = 0) =>
             /\ Len(batch') = Len(log)
             /\ \A j \in 1..Len(log) : batch'[j].ts = log[j].ts
       /\ (PollStep /\ ~Shrunk) => state'.offset >= state.offset
       /\ (PollStep /\ sh_pc \in {"rescan", "tail"} /\ sh_pc' # sh_pc) =>
             state'.offset <= Max(seen_size', Size)]_vars
C34_Witness ==
    /\ sh_pc = "post" /\ sent = 0 /\ ~from_beginning
    /\ \E t \in tail_read : \A j \in 1..Len(log) : log[j].ts # t
    /\ Len(log) >= 1 /\ Len(batch) = Len(log) /\ batch[1].ts = log[1].ts
    /\ state.offset = Size

\* C35: when the followed file is never truncated, no record is in more than
\* one POST payload, whatever the POSTs return and wherever the shipper is
\* stopped and started again.
C35_NoDuplicateShipping ==
    written = Len(log) => \A t \in BagToSet(payloads) : CopiesIn(t, payloads) <= 1

\* C36: when the generic shipper has ended after reading its file: in a dry run
\* post_json was never called and the exit status is 0; otherwise every event
\* is in exactly one call of post_json, the calls take at most --batch-size
\* events each and follow the file order, sent + failed is the number of parsed
\* records, and the exit status is 0 exactly when every call returned True.
InPost(k, p) == gs_posts[p].first <= k /\ k <= gs_posts[p].last
C36_GenericOutcome ==
    (gs_pc = "done" /\ gs_exists) =>
        IF gs_dry_run THEN gs_posts = <<>> /\ gs_exit = 0
        ELSE /\ \A k \in 1..gs_records :
                   Cardinality({p \in 1..Len(gs_posts) : InPost(k, p)}) = 1
             /\ \A p \in 1..Len(gs_posts) :
                   /\ gs_posts[p].last - gs_posts[p].first < gs_batch_size
                   /\ gs_posts[p].first = (IF p = 1 THEN 1 ELSE gs_posts[p - 1].last + 1)
             /\ gs_sent + gs_failed = gs_records
             /\ gs_exit = 0 <=> \A p \in 1..Len(gs_posts) : gs_posts[p].outcome = "ok"

\* C37: a POST to another path than the endpoint is answered 404 and a POST to
\* the endpoint whose body is no JSON object is answered 400, both leaving the
\* file as it was; any other POST is answered 200, and when its "events" member
\* is a list (or missing) the file grows by exactly its elements, in order.
C37_GatewayAnswers ==
    [][gw_served' # gw_served =>
          LET req  == gw_request'
              reqbody == body_read(req)
          IN  IF req.path # ENDPOINT THEN gw_response' = "404" /\ gw_file' = gw_file
              ELSE IF reqbody.kind # "object" THEN gw_response' = "400" /\ gw_file' = gw_file
              ELSE /\ gw_response' = "200"
                   /\ events_of(reqbody).kind = "array" =>
                         gw_file' = gw_file \o events_of(reqbody).items]_vars

\* C38: every setting load_config returns has the value of the first layer that
\* provides it: the environment variable when it is set and not empty, else the
\* TOML file when it holds the key, else the legacy file when its "codex" member
\* holds the key, else the hardcoded default.
Settings == {<<"loki", "url">>, <<"loki", "job_name">>, <<"federation", "node_id">>,
             <<"gateway", "port">>}
EnvNameOf(path) ==
    IF path = <<"loki", "url">> THEN <<"LOKI_URL">>
    ELSE IF path = <<"federation", "node_id">> THEN <<"FEDERATION_NODE_ID">>
    ELSE <<>>
LegacyKeyOf(path) ==
    IF path = <<"loki", "url">> THEN <<"loki_url">>
    ELSE IF path = <<"loki", "job_name">> THEN <<"job_name">>
    ELSE IF path = <<"federation", "node_id">> THEN <<"federation_node">>
    ELSE <<>>
Setting(config, path) == config[path[1]][2][path[2]]
InEnv(path) == EnvNameOf(path) # <<>> /\ env_set(cf_env, EnvNameOf(path)[1])
InToml(path) ==
    /\ cf_toml # <<>>
    /\ path[1] \in DOMAIN cf_toml[1]
    /\ path[2] \in DOMAIN cf_toml[1][path[1]][2]
InLegacy(path) ==
    /\ cf_legacy # <<>>
    /\ LegacyKeyOf(path) # <<>>
    /\ LegacyKeyOf(path)[1] \in DOMAIN cf_legacy[1]
Resolved(path) ==
    IF InEnv(path) THEN Str(cf_env[EnvNameOf(path)[1]][1])
    ELSE IF InToml(path) THEN Setting(cf_toml[1], path)
    ELSE IF InLegacy(path) THEN cf_legacy[1][LegacyKeyOf(path)[1]]
    ELSE Setting(DefaultConfig, path)
C38_ConfigPrecedence ==
    cf_out # <<>> => \A path \in Settings : Setting(cf_out[1], path) = Resolved(path)

\* C39: once the final metadata update has been written, the last line of the
\* JSONL is the session_ended record and meta.final_hash is the SHA-256 of that
\* line, in both recorders and for as long as the process lives.
C39_FinalHashAnchorsChain ==
    meta.ended =>
        /\ IsEnded(jsonl[Len(jsonl)])
        /\ meta.final_hash = compute_sha256(jsonl[Len(jsonl)])
C39_Witness ==
    /\ pc = "done" /\ meta.ended /\ Len(jsonl) >= 3
    /\ jsonl[Len(jsonl)].prev_hash = compute_sha256(jsonl[Len(jsonl) - 1])
    /\ meta.final_hash = compute_sha256(jsonl[Len(jsonl)])

\* C40: when codex-tee.py has ended, O_NONBLOCK on the user's stdin descriptor
\* is as it was before the recorder started (clear).
C40_StdinFlagsRestored ==
    (variant = "tee" /\ pc = "done") => stdin_nonblock = FALSE

====
